---- MODULE Spec2Model ----
(***************************************************************************)
(* Model of the KuantumNET anonymity core: the ChaCha20-Poly1305 sealing   *)
(* of anonymous messages (crypto/anon_protocol.rs), the multi-layer onion  *)
(* encryption (crypto/multi_layer.rs) and the rotation of the temporary    *)
(* identity behind the protocol mutex (crypto/anon_protocol.rs, main.rs);  *)
(* the signing of messages and their wire encoding                         *)
(* (crypto/anon_protocol.rs), the route table of the chaotic router        *)
(* (crypto/chaotic_routing.rs), the decoy traffic task                     *)
(* (crypto/fake_traffic.rs) and the locking of the shared components       *)
(* (main.rs).                                                              *)
(*                                                                         *)
(* Modelling conventions                                                   *)
(*  - A byte string is a sequence of naturals below 256.                   *)
(*  - ring's SystemRandom is an ideal source: every 32-byte key, 12-byte   *)
(*    nonce and 16-byte identity token it fills is a value never drawn     *)
(*    before (the counter rng numbers the draws).  The system RNG and the  *)
(*    key generation are assumed not to fail.                              *)
(*  - ChaCha20-Poly1305 is an ideal AEAD over byte strings: a stream       *)
(*    cipher (byte-wise addition of a key/nonce dependent keystream) and a *)
(*    16-byte polynomial tag bound to the key, the nonce and every byte of *)
(*    the ciphertext.                                                      *)
(***************************************************************************)
EXTENDS Integers, Sequences, FiniteSets, TLC

\* ------------------------------------------------------------------ bounds
MaxLen == 1
MaxLayers == 2
MaxEnc == 2
MaxAdd == 1
MaxSeal == 2
MaxOpen == 2
MaxTime == 3
MaxDuration == 2
MaxHops == 2
MaxPeers == 2
MaxStart == 2
MaxCalls == 3
MaxUnknown == 2

\* ------------------------------------------------------- program constants
NonceLen == 12
TagLen == 16

\* ------------------------------------------------------------ byte strings
PayloadBytes == {7, 200}

Payloads == UNION {[1..n -> PayloadBytes] : n \in 0..MaxLen}

Min(a, b) == IF a <= b THEN a ELSE b

Take(s, n) == SubSeq(s, 1, Min(n, Len(s)))

Drop(s, n) == SubSeq(s, n + 1, Len(s))

RECURSIVE Pow2(_)
Pow2(j) == IF j = 0 THEN 1 ELSE 2 * Pow2(j - 1)

\* the byte b with bit j inverted
FlipBitOfByte(b, j) == IF (b \div Pow2(j)) % 2 = 0 THEN b + Pow2(j) ELSE b - Pow2(j)

\* the string s with bit j of its p-th byte inverted
FlipBit(s, p, j) == [s EXCEPT ![p] = FlipBitOfByte(s[p], j)]

\* ------------------------------------------------- ideal randomness (ring)
\* the c-th draw of a 32-byte key, named by its number
KeyOf(c) == c

\* the c-th draw of a 12-byte nonce
NonceOf(c) == [j \in 1..NonceLen |-> (37 * c + 11 * j) % 256]

\* ------------------------------------------------- ideal ChaCha20-Poly1305
MacPrime == 32749

RECURSIVE SumBytes(_)
SumBytes(s) == IF s = <<>> THEN 0 ELSE s[1] + SumBytes(Tail(s))

\* keystream byte i of the stream keyed by the key and the nonce (the nonce
\* enters through the sum nsum of its bytes)
Keystream(key, nsum, i) == (91 * key + 7 * nsum + 13 * i + 5) % 256

StreamEncrypt(key, nonce, pt) ==
    LET nsum == SumBytes(nonce)
    IN  [i \in 1..Len(pt) |-> (pt[i] + Keystream(key, nsum, i)) % 256]

StreamDecrypt(key, nonce, ct) ==
    LET nsum == SumBytes(nonce)
    IN  [i \in 1..Len(ct) |-> (ct[i] + 256 - Keystream(key, nsum, i)) % 256]

\* one-time evaluation point of the polynomial tag, never 0
MacPoint(key, nonce) == 1 + ((577 * key + SumBytes(nonce)) % (MacPrime - 1))

\* r^n modulo MacPrime
RECURSIVE MacPow(_, _)
MacPow(r, n) ==
    IF n = 0 THEN 1
    ELSE LET h == MacPow(r, n \div 2)
         IN  IF n % 2 = 0 THEN (h * h) % MacPrime ELSE (((h * h) % MacPrime) * r) % MacPrime

\* the polynomial with coefficients ct[lo]+1 .. ct[hi]+1, highest first,
\* evaluated at r modulo MacPrime
RECURSIVE MacPoly(_, _, _, _)
MacPoly(r, ct, lo, hi) ==
    IF lo > hi THEN 0
    ELSE IF lo = hi THEN ((ct[lo] + 1) * r) % MacPrime
    ELSE LET mid == (lo + hi) \div 2
         IN  (MacPoly(r, ct, lo, mid) * MacPow(r, hi - mid) + MacPoly(r, ct, mid + 1, hi)) % MacPrime

\* the 16-byte tag of ciphertext ct under (key, nonce)
Tag(key, nonce, ct) ==
    LET h == MacPoly(MacPoint(key, nonce), ct, 1, Len(ct))
    IN  [j \in 1..TagLen |->
            CASE j = 1 -> key % 256
              [] j = 2 -> (key \div 256) % 256
              [] j = 3 -> SumBytes(nonce) % 256
              [] j = 4 -> (SumBytes(nonce) \div 256) % 256
              [] j = 5 -> h % 256
              [] j = 6 -> (h \div 256) % 256
              [] OTHER -> 0]

Ok(d) == [ok |-> TRUE, data |-> d]

Err == [ok |-> FALSE, data |-> <<>>]

\* LessSafeKey::seal_in_place_append_tag with empty AAD: in_out becomes
\* ciphertext followed by the tag
AeadSeal(key, nonce, in_out) ==
    LET ct == StreamEncrypt(key, nonce, in_out)
    IN  ct \o Tag(key, nonce, ct)

\* open without the tag comparison (a decryption that authenticates nothing)
AeadOpenUnverified(key, nonce, in_out) ==
    IF Len(in_out) < TagLen THEN Err
    ELSE LET ct == Take(in_out, Len(in_out) - TagLen)
         IN  Ok(StreamDecrypt(key, nonce, ct) \o Drop(in_out, Len(in_out) - TagLen))

\* LessSafeKey::open_in_place with empty AAD: an error when the input is
\* shorter than a tag or the tag does not verify; otherwise in_out keeps its
\* length and starts with the plaintext
AeadOpen(key, nonce, in_out) ==
    IF Len(in_out) < TagLen THEN Err
    ELSE LET ct == Take(in_out, Len(in_out) - TagLen)
             tg == Drop(in_out, Len(in_out) - TagLen)
         IN  IF Tag(key, nonce, ct) = tg
             THEN Ok(StreamDecrypt(key, nonce, ct) \o tg)
             ELSE Err

\* ------------------------------------------------ crypto/multi_layer.rs
\* EncryptionLayer::new, fed by the c-th draw of the random source
NewLayer(c) == [key |-> KeyOf(c), nonce |-> NonceOf(c)]

\* a layer that does not put its nonce in front of the ciphertext
LayerEncryptNoPrefix(layer, data) == AeadSeal(layer.key, layer.nonce, data)

\* EncryptionLayer::encrypt
LayerEncrypt(layer, data) == layer.nonce \o AeadSeal(layer.key, layer.nonce, data)

\* a layer that opens under the nonce found in front of the ciphertext
LayerDecryptPrefixNonce(layer, data) ==
    IF Len(data) < Len(layer.nonce) THEN Err
    ELSE LET ciphertext == Drop(data, Len(layer.nonce))
             opened == AeadOpen(layer.key, Take(data, Len(layer.nonce)), ciphertext)
         IN  IF opened.ok
             THEN Ok(Take(opened.data, Len(opened.data) - TagLen))
             ELSE Err

\* EncryptionLayer::decrypt
LayerDecrypt(layer, data) ==
    IF Len(data) < Len(layer.nonce) THEN Err
    ELSE LET ciphertext == Drop(data, Len(layer.nonce))
             opened == AeadOpen(layer.key, layer.nonce, ciphertext)
         IN  IF opened.ok
             THEN Ok(Take(opened.data, Len(opened.data) - TagLen))
             ELSE Err

\* MultiLayerEncryption::new(layer_count) with draws c+1 .. c+layer_count
MultiLayerNew(layer_count, c) ==
    [layer_count |-> layer_count,
     layers |-> [i \in 1..layer_count |-> NewLayer(c + i)]]

\* the loop of MultiLayerEncryption::encrypt from layer i on
RECURSIVE EncryptFrom(_, _, _)
EncryptFrom(layers, i, current_data) ==
    IF i > Len(layers) THEN current_data
    ELSE EncryptFrom(layers, i + 1, LayerEncrypt(layers[i], current_data))

\* MultiLayerEncryption::encrypt
MultiLayerEncrypt(m, data) == Ok(EncryptFrom(m.layers, 1, data))

\* a decrypt loop that walks the layers in construction order
RECURSIVE DecryptForward(_, _, _)
DecryptForward(layers, i, current_data) ==
    IF i = 0 THEN Ok(current_data)
    ELSE LET r == LayerDecrypt(layers[Len(layers) + 1 - i], current_data)
         IN  IF r.ok THEN DecryptForward(layers, i - 1, r.data) ELSE Err

\* a decrypt loop that stops at the first failing layer and hands back what
\* it has peeled so far
RECURSIVE DecryptPartial(_, _, _)
DecryptPartial(layers, i, current_data) ==
    IF i = 0 THEN Ok(current_data)
    ELSE LET r == LayerDecrypt(layers[i], current_data)
         IN  IF r.ok THEN DecryptPartial(layers, i - 1, r.data) ELSE Ok(current_data)

\* the loop of MultiLayerEncryption::decrypt over layers i, i-1, .. 1
RECURSIVE DecryptFrom(_, _, _)
DecryptFrom(layers, i, current_data) ==
    IF i = 0 THEN Ok(current_data)
    ELSE LET r == LayerDecrypt(layers[i], current_data)
         IN  IF r.ok THEN DecryptFrom(layers, i - 1, r.data) ELSE Err

\* MultiLayerEncryption::decrypt
MultiLayerDecrypt(m, data) == DecryptFrom(m.layers, Len(m.layers), data)

\* MultiLayerEncryption::add_layer with the c-th draw
MultiLayerAddLayer(m, c) ==
    [layer_count |-> m.layer_count + 1, layers |-> Append(m.layers, NewLayer(c))]

\* ------------------------------------- crypto/anon_protocol.rs: the codec
\* AnonMessage::default()
DefaultMessage ==
    [msg_type |-> 0, timestamp |-> 0, temp_id |-> <<>>, payload |-> <<>>,
     signature |-> <<>>, hop_count |-> 0]

\* wire types of the protobuf encoding
Wire ==
    [Varint |-> 0, SixtyFourBit |-> 1, LengthDelimited |-> 2, StartGroup |-> 3,
     EndGroup |-> 4, ThirtyTwoBit |-> 5]

\* prost::encoding::encode_varint
RECURSIVE EncodeVarint(_)
EncodeVarint(v) == IF v < 128 THEN <<v>> ELSE <<128 + (v % 128)>> \o EncodeVarint(v \div 128)

\* prost::encoding::encode_key
EncodeKey(tag, wire_type) == EncodeVarint(tag * 8 + wire_type)

\* a numeric wrapper that writes its value without the field key
EncodeNumberBare(v) == IF v = 0 THEN <<>> ELSE EncodeVarint(v)

\* encode_raw of the numeric wrappers (i32, u64, u32): field 1, omitted
\* when the value is the default
EncodeNumber(v) == IF v = 0 THEN <<>> ELSE EncodeKey(1, Wire.Varint) \o EncodeVarint(v)

\* encode_raw of the String and Vec<u8> wrappers: field 1, omitted when empty
EncodeBytes(b) ==
    IF b = <<>> THEN <<>>
    ELSE EncodeKey(1, Wire.LengthDelimited) \o EncodeVarint(Len(b)) \o b

\* prost::encoding::message::encode(tag, value, buf), inner being the
\* value's encode_raw
EncodeField(tag, inner) ==
    EncodeKey(tag, Wire.LengthDelimited) \o EncodeVarint(Len(inner)) \o inner

\* a skip_field that takes every unknown field for an error
SkipFieldRejects(wire_type, tag, buf) == [ok |-> FALSE, val |-> 0, rest |-> <<>>]

\* the six records AnonMessage::encode_raw writes, one per field
EncodedFields(m) ==
    <<EncodeField(1, EncodeNumber(m.msg_type)), EncodeField(2, EncodeNumber(m.timestamp)),
      EncodeField(3, EncodeBytes(m.temp_id)), EncodeField(4, EncodeBytes(m.payload)),
      EncodeField(5, EncodeBytes(m.signature)), EncodeField(6, EncodeNumber(m.hop_count))>>

\* AnonMessage::encode_raw
EncodeMessage(m) ==
    EncodeField(1, EncodeNumber(m.msg_type))
    \o EncodeField(2, EncodeNumber(m.timestamp))
    \o EncodeField(3, EncodeBytes(m.temp_id))
    \o EncodeField(4, EncodeBytes(m.payload))
    \o EncodeField(5, EncodeBytes(m.signature))
    \o EncodeField(6, EncodeNumber(m.hop_count))

\* results of the decoding steps: ok, the value read, the unread rest
Parsed(v, rest) == [ok |-> TRUE, val |-> v, rest |-> rest]

ParseError == [ok |-> FALSE, val |-> 0, rest |-> <<>>]

\* prost::encoding::decode_varint, reading byte k of the varint; the model
\* reads varints of at most 5 bytes that hold a value below 2^31
RECURSIVE DecodeVarintFrom(_, _, _, _)
DecodeVarintFrom(buf, k, scale, acc) ==
    IF k > Len(buf) THEN ParseError
    ELSE IF k = 5
    THEN IF buf[k] < 8 THEN Parsed(acc + buf[k] * scale, Drop(buf, k)) ELSE ParseError
    ELSE IF buf[k] < 128 THEN Parsed(acc + buf[k] * scale, Drop(buf, k))
    ELSE DecodeVarintFrom(buf, k + 1, scale * 128, acc + (buf[k] - 128) * scale)

DecodeVarint(buf) == DecodeVarintFrom(buf, 1, 1, 0)

\* decode_key on the varint k just read: val is <<tag, wire_type>>
KeyOfVarint(k) ==
    IF ~k.ok THEN ParseError
    ELSE IF k.val % 8 > Wire.ThirtyTwoBit THEN ParseError
    ELSE IF k.val \div 8 = 0 THEN ParseError
    ELSE Parsed(<<k.val \div 8, k.val % 8>>, k.rest)

\* prost::encoding::decode_key
DecodeKey(buf) == KeyOfVarint(DecodeVarint(buf))

\* the bytes a length prefix l just read delimits, and what follows them
DelimitedBy(l) ==
    IF ~l.ok THEN ParseError
    ELSE IF l.val > Len(l.rest) THEN ParseError
    ELSE Parsed(Take(l.rest, l.val), Drop(l.rest, l.val))

\* the length-delimited payload at the head of buf
DecodeDelimited(buf) == DelimitedBy(DecodeVarint(buf))

\* the step r with its value replaced by v
WithValue(r, v) == IF r.ok THEN Parsed(v, r.rest) ELSE ParseError

\* buf without its first n bytes, an error if it is shorter
Advance(buf, n) == IF Len(buf) < n THEN ParseError ELSE Parsed(0, Drop(buf, n))

\* prost::encoding::skip_field: val is unused
RECURSIVE SkipField(_, _, _)
RECURSIVE SkipGroup(_, _)
RECURSIVE SkipGroupAfterKey(_, _)
RECURSIVE SkipGroupAfterField(_, _)
SkipField(wire_type, tag, buf) ==
    CASE wire_type = Wire.Varint -> WithValue(DecodeVarint(buf), 0)
      [] wire_type = Wire.SixtyFourBit -> Advance(buf, 8)
      [] wire_type = Wire.ThirtyTwoBit -> Advance(buf, 4)
      [] wire_type = Wire.LengthDelimited -> WithValue(DecodeDelimited(buf), 0)
      [] wire_type = Wire.StartGroup -> SkipGroup(tag, buf)
      [] OTHER -> ParseError

\* skip_field inside a group: fields are skipped up to the group's end tag
SkipGroup(tag, buf) == SkipGroupAfterKey(tag, DecodeKey(buf))

SkipGroupAfterKey(tag, k) ==
    IF ~k.ok THEN ParseError
    ELSE IF k.val[2] = Wire.EndGroup
    THEN IF k.val[1] = tag THEN Parsed(0, k.rest) ELSE ParseError
    ELSE SkipGroupAfterField(tag, SkipField(k.val[2], k.val[1], k.rest))

SkipGroupAfterField(tag, s) == IF s.ok THEN SkipGroup(tag, s.rest) ELSE ParseError

\* String::from_utf8 accepts the bytes (the model knows ASCII text only)
ValidText(b) == \A i \in 1..Len(b) : b[i] < 128

\* string::merge on the delimited bytes d just read
TextOf(d) == IF d.ok /\ ~ValidText(d.val) THEN ParseError ELSE d

\* one field of a wrapper value (i32, u64, u32, String, Vec<u8>): field 1
\* sets the value, any other field is skipped; val is the value afterwards
MergeWrapperField(kind, value, tag, wire_type, buf) ==
    IF tag # 1 THEN WithValue(SkipField(wire_type, tag, buf), value)
    ELSE IF kind = "number"
    THEN IF wire_type # Wire.Varint THEN ParseError ELSE DecodeVarint(buf)
    ELSE IF wire_type # Wire.LengthDelimited THEN ParseError
    ELSE IF kind = "text" THEN TextOf(DecodeDelimited(buf))
    ELSE DecodeDelimited(buf)

\* merge loop of a wrapper value over the bytes of one record
RECURSIVE MergeWrapper(_, _, _)
RECURSIVE MergeWrapperAfterKey(_, _, _)
RECURSIVE MergeWrapperAfterField(_, _)
MergeWrapper(kind, value, buf) ==
    IF buf = <<>> THEN Parsed(value, <<>>)
    ELSE MergeWrapperAfterKey(kind, value, DecodeKey(buf))

MergeWrapperAfterKey(kind, value, k) ==
    IF ~k.ok THEN ParseError
    ELSE MergeWrapperAfterField(kind, MergeWrapperField(kind, value, k.val[1], k.val[2], k.rest))

MergeWrapperAfterField(kind, f) ==
    IF f.ok THEN MergeWrapper(kind, f.val, f.rest) ELSE ParseError

\* the step w, continued at rest
RestAfter(w, rest) == IF w.ok THEN Parsed(w.val, rest) ELSE ParseError

\* the record d holds the wrapper's bytes: merge them, then go on after d
MergeDelimited(kind, value, d) ==
    IF ~d.ok THEN ParseError ELSE RestAfter(MergeWrapper(kind, value, d.val), d.rest)

\* prost::encoding::message::merge(wire_type, &mut value, buf, ctx); val is
\* the merged value
MergeMessageField(kind, wire_type, value, buf) ==
    IF wire_type # Wire.LengthDelimited THEN ParseError
    ELSE MergeDelimited(kind, value, DecodeDelimited(buf))

\* the field of AnonMessage each tag stands for, and its kind
FieldOfTag ==
    [t \in 1..6 |->
        CASE t = 1 -> [name |-> "msg_type", kind |-> "number"]
          [] t = 2 -> [name |-> "timestamp", kind |-> "number"]
          [] t = 3 -> [name |-> "temp_id", kind |-> "text"]
          [] t = 4 -> [name |-> "payload", kind |-> "bytes"]
          [] t = 5 -> [name |-> "signature", kind |-> "bytes"]
          [] t = 6 -> [name |-> "hop_count", kind |-> "number"]]

\* the message m with the field just merged (r) stored under name
StoreField(m, name, r) ==
    IF r.ok THEN Parsed([m EXCEPT ![name] = r.val], r.rest) ELSE ParseError

\* AnonMessage::merge_field: val is the message after the field
MergeField(m, tag, wire_type, buf) ==
    IF tag \in DOMAIN FieldOfTag
    THEN StoreField(m, FieldOfTag[tag].name,
                    MergeMessageField(FieldOfTag[tag].kind, wire_type, m[FieldOfTag[tag].name], buf))
    ELSE WithValue(SkipField(wire_type, tag, buf), m)

\* the loop of Message::merge: fields are merged into m until buf is used up
RECURSIVE MergeMessage(_, _)
RECURSIVE MergeMessageAfterKey(_, _)
RECURSIVE MergeMessageAfterField(_)
MergeMessage(m, buf) ==
    IF buf = <<>> THEN Parsed(m, <<>>)
    ELSE MergeMessageAfterKey(m, DecodeKey(buf))

MergeMessageAfterKey(m, k) ==
    IF ~k.ok THEN ParseError
    ELSE MergeMessageAfterField(MergeField(m, k.val[1], k.val[2], k.rest))

MergeMessageAfterField(f) == IF f.ok THEN MergeMessage(f.val, f.rest) ELSE ParseError

\* AnonMessage::decode
DecodeMessage(buf) == MergeMessage(DefaultMessage, buf)

\* -------------------------------- crypto/anon_protocol.rs: seal and open
\* outcomes of decrypt_message
OpenOk(m) == [outcome |-> "Ok", msg |-> m]

OpenErr == [outcome |-> "Err", msg |-> DefaultMessage]

OpenPanic == [outcome |-> "Panic", msg |-> DefaultMessage]

\* AnonymousProtocol::encrypt_message: the key is draw c, the nonce draw c+1
EncryptMessage(message, c) ==
    LET encoded == EncodeMessage(message)
        key_bytes == KeyOf(c)
        nonce_bytes == NonceOf(c + 1)
        in_out == AeadSeal(key_bytes, nonce_bytes, encoded)
    IN  [key |-> key_bytes, nonce |-> nonce_bytes, out |-> nonce_bytes \o in_out]

\* the key decrypt_message opens with: draw c of the random source
OpenKey(c) == KeyOf(c)

\* decrypt_message after AnonMessage::decode
OpenDecoded(message) == IF message.ok THEN OpenOk(message.val) ELSE OpenErr

\* decrypt_message after open_in_place: the tag is cut off, the rest decoded
OpenOpened(opened) ==
    IF ~opened.ok THEN OpenErr
    ELSE IF Len(opened.data) < TagLen THEN OpenPanic
    ELSE OpenDecoded(DecodeMessage(Take(opened.data, Len(opened.data) - TagLen)))

\* AnonymousProtocol::decrypt_message, its key being draw c
DecryptMessage(encrypted, c) ==
    IF Len(encrypted) < 12 THEN OpenErr
    ELSE OpenOpened(AeadOpen(OpenKey(c), Take(encrypted, 12), Drop(encrypted, 12)))

\* --------------------------- crypto/anon_protocol.rs: temporary identity
\* TemporaryIdentity::new(valid_duration) at time t: the keypair is draw c of
\* the random source, the 16 id bytes (hex-encoded) are draw c+1
NewIdentity(c, t, valid_duration) ==
    [some |-> TRUE, id |-> c + 1, keypair |-> c, created_at |-> t,
     valid_until |-> t + valid_duration]

\* a validity test that excludes the instant valid_until itself
IsValidStrict(identity, t) == t < identity.valid_until

\* TemporaryIdentity::is_valid, the clock reading t
IsValid(identity, t) == t <= identity.valid_until

\* a get_identity that replaces the identity on every call
AlwaysCreateNew(identity, t) == TRUE

\* should_create_new of get_identity, the clock reading t
ShouldCreateNew(identity, t) == ~(identity.some /\ IsValid(identity, t))

\* a lock that lets every caller in
LockAlwaysFree(m) == TRUE

\* Mutex::lock returns once nobody holds the mutex
LockFree(m) == m = "free"

\* ------------------------------------------------------------------- state
VARIABLES
    rng,          \* number of draws taken from the random source so far
    aeadUsed,     \* the (key, nonce) pairs some AEAD seal has used
    aeadReused,   \* the (key, nonce) pairs used by more than one AEAD seal
    inst,         \* the MultiLayerEncryption instances "A" and "B"
    onionLog,     \* the encrypt calls made so far: instance, input, output
    adds,         \* number of add_layer calls made so far
    lastDec,      \* the latest MultiLayerEncryption::decrypt call
    sealLog,      \* the encrypt_message calls made so far
    lastOpen,     \* the latest decrypt_message call
    now,          \* SystemTime::now()
    identity_duration,  \* AnonymousProtocol.identity_duration
    current_identity,   \* AnonymousProtocol.current_identity
    mutex,        \* holder of the Mutex around the AnonymousProtocol
    pc,           \* where each thread is in create_anonymous_token
    call,         \* each thread's get_identity call in progress
    mintLog,      \* the identities created so far, oldest first
    lastMsg,      \* the latest create_message call
    codec,        \* a message on its way through encode and decode
    forward_probability,  \* ChaoticRouter.forward_probability, in units of 2^-24
    max_hops,         \* ChaoticRouter.max_hops
    current_routes,   \* ChaoticRouter.current_routes
    created,      \* message ids given a route and not cleared since
    lastRoute,    \* the latest ChaoticRouter call
    rate_per_second,  \* FakeTrafficGenerator.rate_per_second
    active,           \* FakeTrafficGenerator.active
    tasks,        \* the tasks spawned by start, oldest first
    delivered,    \* the request the callback was handed last
    guard,        \* holder of each of the three component mutexes
    lpc,          \* where each thread is in its main.rs operation
    lop,          \* each thread's operation in progress
    lcalls        \* number of main.rs operations started so far

randVars == <<rng, aeadUsed, aeadReused>>

onionVars == <<inst, onionLog, adds, lastDec>>

sealVars == <<sealLog, lastOpen>>

identVars == <<now, identity_duration, current_identity, mutex, pc, call, mintLog>>

msgVars == <<lastMsg>>

codecVars == <<codec>>

routeVars == <<forward_probability, max_hops, current_routes, created, lastRoute>>

trafficVars == <<rate_per_second, active, tasks, delivered>>

lockVars == <<guard, lpc, lop, lcalls>>

restVars == <<msgVars, codecVars, routeVars, trafficVars, lockVars>>

vars == <<randVars, onionVars, sealVars, identVars, restVars>>

Instances == {"A", "B"}

NoDec == [by |-> "none", src |-> 0, kind |-> "none", input |-> <<>>, layers |-> <<>>, res |-> Err]

\* the (key, nonce) pairs one encrypt call of instance m seals under
LayerPairs(m) == {<<m.layers[i].key, m.layers[i].nonce>> : i \in 1..Len(m.layers)}

\* ------------------------------------------------- inputs handed to decrypt
FlipKinds == {"flip_nonce", "flip_body", "flip_tag"}

\* the byte a flip of the given kind hits in a packet of the given length
FlipPosition(kind, len) ==
    CASE kind = "flip_nonce" -> 1
      [] kind = "flip_body" -> NonceLen + 1
      [] kind = "flip_tag" -> len

FlipBits == {7}

TruncLens(len) == {NonceLen - 1, len - 1} \cap 0..(len - 1)

\* ------------------------------------------------------- idle components
Threads == {"t1", "t2"}

NoOpen == [src |-> 0, kind |-> "none", input |-> <<>>, key |-> 0, res |-> OpenErr]

\* Option::None of current_identity
NoIdentity == [some |-> FALSE, id |-> 0, keypair |-> 0, created_at |-> 0, valid_until |-> 0]

NoCall == [prev |-> NoIdentity, check_time |-> 0, should_create_new |-> FALSE,
           mints_before |-> 0, done_time |-> 0, returned |-> 0, mints |-> 0]

\* no onion instance in use: two instances without layers
OnionIdle ==
    /\ inst = [i \in Instances |-> MultiLayerNew(0, 0)]
    /\ onionLog = <<>>
    /\ adds = 0
    /\ lastDec = NoDec

SealIdle ==
    /\ sealLog = <<>>
    /\ lastOpen = NoOpen

\* AnonymousProtocol::new(identity_duration), nobody calling
IdentIdle ==
    /\ now = 0
    /\ identity_duration = 0
    /\ current_identity = NoIdentity
    /\ mutex = "free"
    /\ pc = [t \in Threads |-> "idle"]
    /\ call = [t \in Threads |-> NoCall]
    /\ mintLog = <<>>

\* no create_message call made yet
NoMsg == [called |-> FALSE, msg_type |-> 0, payload |-> <<>>, hop_count |-> 0,
          rotated |-> FALSE, identity |-> NoIdentity, unsigned |-> DefaultMessage,
          message |-> DefaultMessage]

MsgIdle == lastMsg = NoMsg

NoCodec ==
    [stage |-> "idle", m |-> DefaultMessage, parts |-> <<>>, bytes |-> <<>>,
     decoded |-> ParseError]

CodecIdle == codec = NoCodec

\* HashMap::new()
EmptyTable == [id \in {} |-> <<>>]

NoRouteCall == [op |-> "none", id |-> "", peers |-> <<>>, hop_count |-> 0,
                res |-> "none", route |-> <<>>, before |-> EmptyTable]

\* no router in use
RouteIdle ==
    /\ forward_probability = 0
    /\ max_hops = 0
    /\ current_routes = EmptyTable
    /\ created = {}
    /\ lastRoute = NoRouteCall

\* nothing handed to a callback yet
NoRequest == [method |-> "", url |-> "", data_size |-> 0, by |-> 0, active |-> FALSE]

\* no traffic generator in use
TrafficIdle ==
    /\ rate_per_second = 0
    /\ active = FALSE
    /\ tasks = <<>>
    /\ delivered = NoRequest

\* the mutexes of KuantumBehaviour
Locks == {"multi_layer_encryption", "anonymous_protocol", "chaotic_router"}

NoOp == [op |-> "none", data |-> <<>>, tried |-> <<>>, res |-> "none"]

\* no thread inside a main.rs operation
LockIdle ==
    /\ guard = [l \in Locks |-> "free"]
    /\ lpc = [t \in Threads |-> "idle"]
    /\ lop = [t \in Threads |-> NoOp]
    /\ lcalls = 0

RestIdle ==
    /\ MsgIdle
    /\ CodecIdle
    /\ RouteIdle
    /\ TrafficIdle
    /\ LockIdle

\* ------------------------------------------------------------ onion actions
InitOnion ==
    \E n \in 0..MaxLayers :
        /\ inst = [i \in Instances |->
                      IF i = "A" THEN MultiLayerNew(n, 0) ELSE MultiLayerNew(n, n)]
        /\ rng = n + n
        /\ adds = 0
        /\ aeadUsed = {}
        /\ aeadReused = {}
        /\ onionLog = <<>>
        /\ lastDec = NoDec
        /\ SealIdle
        /\ IdentIdle
        /\ RestIdle

\* inst[i].encrypt(d)
OnionEncrypt(i, d) ==
    /\ Len(onionLog) < MaxEnc
    /\ LET r == MultiLayerEncrypt(inst[i], d)
       IN  onionLog' = Append(onionLog,
               [by |-> i, d |-> d, out |-> r.data, layers |-> inst[i].layers])
    /\ aeadReused' = aeadReused \cup (aeadUsed \cap LayerPairs(inst[i]))
    /\ aeadUsed' = aeadUsed \cup LayerPairs(inst[i])
    /\ UNCHANGED <<rng, inst, adds, lastDec, sealVars, identVars, restVars>>

\* inst[i].decrypt(input), the input being an earlier output, as produced
OnionDecryptIntact(i, e) ==
    /\ lastDec' = [by |-> i, src |-> e, kind |-> "intact", input |-> onionLog[e].out,
                   layers |-> inst[i].layers,
                   res |-> MultiLayerDecrypt(inst[i], onionLog[e].out)]
    /\ UNCHANGED <<randVars, inst, onionLog, adds, sealVars, identVars, restVars>>

\* inst[i].decrypt(input), the input being an earlier output with one bit
\* inverted
OnionDecryptFlipped(i, e, kind, bit) ==
    /\ Len(onionLog[e].out) >= NonceLen + 1
    /\ LET input == FlipBit(onionLog[e].out, FlipPosition(kind, Len(onionLog[e].out)), bit)
       IN  lastDec' = [by |-> i, src |-> e, kind |-> kind, input |-> input,
                       layers |-> inst[i].layers,
                       res |-> MultiLayerDecrypt(inst[i], input)]
    /\ UNCHANGED <<randVars, inst, onionLog, adds, sealVars, identVars, restVars>>

\* inst[i].decrypt(input), the input being a proper prefix of an earlier
\* output
OnionDecryptTruncated(i, e, len) ==
    /\ len \in TruncLens(Len(onionLog[e].out))
    /\ LET input == Take(onionLog[e].out, len)
       IN  lastDec' = [by |-> i, src |-> e, kind |-> "trunc", input |-> input,
                       layers |-> inst[i].layers,
                       res |-> MultiLayerDecrypt(inst[i], input)]
    /\ UNCHANGED <<randVars, inst, onionLog, adds, sealVars, identVars, restVars>>

\* inst[i].add_layer()
OnionAddLayer(i) ==
    /\ adds < MaxAdd
    /\ inst' = [inst EXCEPT ![i] = MultiLayerAddLayer(inst[i], rng + 1)]
    /\ rng' = rng + 1
    /\ adds' = adds + 1
    /\ UNCHANGED <<aeadUsed, aeadReused, onionLog, lastDec, sealVars, identVars, restVars>>

NextOnion ==
    \/ \E i \in Instances, d \in Payloads : OnionEncrypt(i, d)
    \/ \E i \in Instances, e \in 1..Len(onionLog) : OnionDecryptIntact(i, e)
    \/ \E i \in Instances, e \in 1..Len(onionLog), kind \in FlipKinds, bit \in FlipBits :
           OnionDecryptFlipped(i, e, kind, bit)
    \/ \E i \in Instances, e \in 1..Len(onionLog), len \in 0..(MaxLen + (NonceLen + TagLen) * (MaxLayers + MaxAdd)) :
           OnionDecryptTruncated(i, e, len)
    \/ \E i \in Instances : OnionAddLayer(i)

SpecOnion == InitOnion /\ [][NextOnion]_vars

\* ------------------------------------------------------------ onion claims
\* the encrypt call whose output the latest decrypt call was given
DecSrc == onionLog[lastDec.src]

\* the latest decrypt call was made by the instance that produced the
\* ciphertext, on the ciphertext as produced, and no add_layer came between
SameInstanceIntact ==
    /\ lastDec.kind = "intact"
    /\ lastDec.by = DecSrc.by
    /\ lastDec.layers = DecSrc.layers

\* the latest decrypt call was made by the other instance, holding as many
\* layers as the producer, on the ciphertext as produced
CrossInstanceIntact ==
    /\ lastDec.kind = "intact"
    /\ lastDec.by # DecSrc.by
    /\ Len(lastDec.layers) = Len(DecSrc.layers)

\* the results of opening layers i, i-1, .. one after the other, up to and
\* including the first that fails
RECURSIVE PeelStages(_, _, _)
PeelStages(layers, i, data) ==
    IF i = 0 THEN <<>>
    ELSE LET r == LayerDecrypt(layers[i], data)
         IN  IF r.ok THEN <<r>> \o PeelStages(layers, i - 1, r.data) ELSE <<r>>

\* C2: decrypt(encrypt(d)) on the same instance, with no add_layer in
\* between, is Ok(d); the outermost wrapping of an output is the one of the
\* last layer, and the wrapping below it is the one of the layer before.
C2_OnionRoundTrip ==
    /\ SameInstanceIntact => lastDec.res = Ok(DecSrc.d)
    /\ \A e \in DOMAIN onionLog :
          LET ls == onionLog[e].layers
              n == Len(ls)
              outer == LayerDecrypt(ls[n], onionLog[e].out)
          IN  /\ n >= 1 => Take(onionLog[e].out, NonceLen) = ls[n].nonce /\ outer.ok
              /\ n >= 2 => Take(outer.data, NonceLen) = ls[n - 1].nonce
              /\ n = 1 => outer.data = onionLog[e].d

C2_Witness ==
    /\ SameInstanceIntact
    /\ Len(lastDec.layers) >= 2
    /\ DecSrc.d # <<>>
    /\ lastDec.res = Ok(DecSrc.d)

\* C3: no (key, nonce) pair is used by more than one AEAD encryption.
C3_NonceUnique == aeadReused = {}

\* C8 as stated: for every layer count N >= 0, decrypting under a separately
\* constructed instance with N layers returns an error.
C8_CrossInstanceFails == CrossInstanceIntact => ~lastDec.res.ok

\* C8 amended: for every layer count N >= 1, decrypting under a separately
\* constructed instance with N layers returns an error; with N = 0 both
\* operations are the identity and the call returns Ok(d).
C8_CrossInstanceFailsWithLayers ==
    CrossInstanceIntact =>
        IF Len(lastDec.layers) >= 1 THEN lastDec.res = Err ELSE lastDec.res = Ok(DecSrc.d)

C8_Witness ==
    /\ CrossInstanceIntact
    /\ Len(lastDec.layers) >= 1
    /\ lastDec.res = Err

C10_LayersFixed ==
    \A e \in DOMAIN onionLog :
        /\ inst[onionLog[e].by].layers = onionLog[e].layers
        /\ MultiLayerDecrypt(inst[onionLog[e].by], onionLog[e].out) = Ok(onionLog[e].d)

\* ---------------------------------------------------- seal / open actions
\* the messages handed to encrypt_message
Messages ==
    {DefaultMessage} \cup
    {[msg_type |-> t, timestamp |-> 300, temp_id |-> <<97, 49>>, payload |-> p,
      signature |-> <<9, 200>>, hop_count |-> 1] : t \in {0, 2}, p \in Payloads}

SealTruncLens(len) ==
    {NonceLen - 1, NonceLen + TagLen - 1, NonceLen + TagLen, len - 1} \cap 0..(len - 1)

InitSeal ==
    /\ rng = 0
    /\ aeadUsed = {}
    /\ aeadReused = {}
    /\ OnionIdle
    /\ SealIdle
    /\ IdentIdle
    /\ RestIdle

\* encrypt_message(m)
SealMessage(m) ==
    /\ Len(sealLog) < MaxSeal
    /\ LET sealed == EncryptMessage(m, rng + 1)
       IN  /\ sealLog' = Append(sealLog,
                   [m |-> m, key |-> sealed.key, nonce |-> sealed.nonce, out |-> sealed.out])
           /\ aeadReused' = aeadReused \cup (aeadUsed \cap {<<sealed.key, sealed.nonce>>})
           /\ aeadUsed' = aeadUsed \cup {<<sealed.key, sealed.nonce>>}
    /\ rng' = rng + 2
    /\ UNCHANGED <<lastOpen, onionVars, identVars, restVars>>

\* decrypt_message(input) has drawn fewer than MaxOpen keys so far
MayOpen == rng - 2 * Len(sealLog) < MaxOpen

\* decrypt_message(input): the call draws its key, opens and decodes
OpenInput(e, kind, input) ==
    /\ MayOpen
    /\ lastOpen' = [src |-> e, kind |-> kind, input |-> input, key |-> OpenKey(rng + 1),
                    res |-> DecryptMessage(input, rng + 1)]
    /\ rng' = rng + 1
    /\ UNCHANGED <<aeadUsed, aeadReused, sealLog, onionVars, identVars, restVars>>

\* decrypt_message on a sealed packet as produced
OpenIntact(e) == OpenInput(e, "intact", sealLog[e].out)

\* decrypt_message on a sealed packet with one bit inverted
OpenFlipped(e, kind, bit) ==
    OpenInput(e, kind, FlipBit(sealLog[e].out, FlipPosition(kind, Len(sealLog[e].out)), bit))

\* decrypt_message on a proper prefix of a sealed packet
OpenTruncated(e, len) ==
    /\ len \in SealTruncLens(Len(sealLog[e].out))
    /\ OpenInput(e, "trunc", Take(sealLog[e].out, len))

NextSeal ==
    \/ \E m \in Messages : SealMessage(m)
    \/ \E e \in 1..Len(sealLog) : OpenIntact(e)
    \/ \E e \in 1..Len(sealLog), kind \in FlipKinds, bit \in FlipBits : OpenFlipped(e, kind, bit)
    \/ \E e \in 1..Len(sealLog), len \in 0..(NonceLen + TagLen) : OpenTruncated(e, len)

SpecSeal == InitSeal /\ [][NextSeal]_vars

\* ------------------------------------------------------ seal / open claims
\* the encrypt_message call whose packet the latest decrypt_message was given
OpenSrc == sealLog[lastOpen.src]

\* C1: opening the packet produced by sealing m succeeds and returns m.
C1_SealRoundTrip == lastOpen.kind = "intact" => lastOpen.res = OpenOk(OpenSrc.m)

\* C7: decrypt_message returns Err (no message, no panic) for every input
\* shorter than nonce plus tag, for every sealed packet with a bit of its
\* ciphertext or tag inverted, and for every packet opened under a key other
\* than the one that sealed it.
C7_InauthenticRejected ==
    lastOpen.kind # "none" =>
        /\ Len(lastOpen.input) < NonceLen + TagLen => lastOpen.res = OpenErr
        /\ lastOpen.kind \in {"flip_body", "flip_tag"} => lastOpen.res = OpenErr
        /\ lastOpen.key # OpenSrc.key => lastOpen.res = OpenErr

C7_Witness ==
    /\ lastOpen.kind = "flip_body"
    /\ Len(lastOpen.input) >= NonceLen + TagLen
    /\ lastOpen.key # OpenSrc.key
    /\ lastOpen.res = OpenErr
    /\ Len(sealLog) = MaxSeal

\* --------------------------------------------------------- identity actions
InitIdent ==
    /\ rng = 0
    /\ aeadUsed = {}
    /\ aeadReused = {}
    /\ OnionIdle
    /\ SealIdle
    /\ RestIdle
    /\ now = 0
    /\ identity_duration \in 0..MaxDuration
    /\ current_identity = NoIdentity
    /\ mutex = "free"
    /\ pc = [t \in Threads |-> "idle"]
    /\ call = [t \in Threads |-> NoCall]
    /\ mintLog = <<>>

\* the clock advances
Tick ==
    /\ now < MaxTime
    /\ now' = now + 1
    /\ UNCHANGED <<identity_duration, current_identity, mutex, pc, call, mintLog>>
    /\ UNCHANGED <<randVars, onionVars, sealVars, restVars>>

\* create_anonymous_token: self.anonymous_protocol.lock().unwrap()
Lock(t) ==
    /\ pc[t] = "idle"
    /\ LockFree(mutex)
    /\ mutex' = t
    /\ pc' = [pc EXCEPT ![t] = "locked"]
    /\ UNCHANGED <<now, identity_duration, current_identity, call, mintLog>>
    /\ UNCHANGED <<randVars, onionVars, sealVars, restVars>>

\* get_identity, up to its first clock reading: should_create_new is set
GetIdentityCheck(t) ==
    /\ pc[t] = "locked"
    /\ call' = [call EXCEPT ![t] =
                   [NoCall EXCEPT !.prev = current_identity,
                                  !.check_time = now,
                                  !.should_create_new = ShouldCreateNew(current_identity, now),
                                  !.mints_before = Len(mintLog)]]
    /\ pc' = [pc EXCEPT ![t] = "checked"]
    /\ UNCHANGED <<now, identity_duration, current_identity, mutex, mintLog>>
    /\ UNCHANGED <<randVars, onionVars, sealVars, restVars>>

\* get_identity, from the creation (with its own clock reading) to the return
GetIdentityReturn(t) ==
    /\ pc[t] = "checked"
    /\ IF call[t].should_create_new
       THEN /\ current_identity' = NewIdentity(rng + 1, now, identity_duration)
            /\ rng' = rng + 2
            /\ mintLog' = Append(mintLog, [identity |-> current_identity', by |-> t])
       ELSE UNCHANGED <<current_identity, rng, mintLog>>
    /\ call' = [call EXCEPT ![t] =
                   [call[t] EXCEPT !.done_time = now,
                                   !.returned = current_identity'.id,
                                   !.mints = Len(mintLog')]]
    /\ pc' = [pc EXCEPT ![t] = "got"]
    /\ UNCHANGED <<now, identity_duration, mutex>>
    /\ UNCHANGED <<aeadUsed, aeadReused, onionVars, sealVars, restVars>>

\* create_anonymous_token returns: the guard is dropped
Unlock(t) ==
    /\ pc[t] = "got"
    /\ mutex' = "free"
    /\ pc' = [pc EXCEPT ![t] = "idle"]
    /\ call' = [call EXCEPT ![t] = NoCall]
    /\ UNCHANGED <<now, identity_duration, current_identity, mintLog>>
    /\ UNCHANGED <<randVars, onionVars, sealVars, restVars>>

NextIdent ==
    \/ Tick
    \/ \E t \in Threads : Lock(t)
    \/ \E t \in Threads : GetIdentityCheck(t)
    \/ \E t \in Threads : GetIdentityReturn(t)
    \/ \E t \in Threads : Unlock(t)

SpecIdent == InitIdent /\ [][NextIdent]_vars

\* ---------------------------------------------------------- identity claims
\* the identity created last
LastMinted == mintLog[Len(mintLog)]

\* C4: get_identity returns the stored identity unchanged, creating nothing,
\* when one exists and the clock it reads is at most valid_until; otherwise
\* it creates an identity with valid_until = now + identity_duration, stores
\* it and returns it.
C4_ReuseOrRotate ==
    \A t \in Threads :
        pc[t] = "got" =>
            LET c == call[t]
            IN  IF c.prev.some /\ c.check_time <= c.prev.valid_until
                THEN /\ current_identity = c.prev
                     /\ c.returned = c.prev.id
                     /\ c.mints = c.mints_before
                ELSE /\ current_identity.some
                     /\ current_identity # c.prev
                     /\ current_identity.created_at = c.done_time
                     /\ current_identity.valid_until = c.done_time + identity_duration
                     /\ c.returned = current_identity.id
                     /\ c.mints = c.mints_before + 1
                     /\ mintLog[c.mints].identity = current_identity

C4_Witness ==
    \E t \in Threads :
        /\ pc[t] = "got"
        /\ call[t].prev.some
        /\ call[t].check_time > call[t].prev.valid_until
        /\ call[t].done_time > call[t].check_time
        /\ call[t].returned = current_identity.id
        /\ current_identity.valid_until = now + identity_duration

\* C5: an identity is created only after the one before it has expired, so
\* one expiry gives one new identity, and a caller that returns from
\* get_identity holds the identity created last.
C5_OneCreationPerExpiry ==
    /\ \A i \in 1..(Len(mintLog) - 1) :
          mintLog[i + 1].identity.created_at > mintLog[i].identity.valid_until
    /\ \A t \in Threads :
          pc[t] = "got" =>
              /\ call[t].mints = Len(mintLog)
              /\ call[t].returned = LastMinted.identity.id
              /\ current_identity = LastMinted.identity

C5_Witness ==
    \E t \in Threads :
        /\ pc[t] = "got"
        /\ Len(mintLog) >= 2
        /\ LastMinted.by # t
        /\ call[t].check_time = LastMinted.identity.created_at
        /\ ~call[t].should_create_new
        /\ call[t].returned = LastMinted.identity.id

\* C6: an identity created at t0 is valid exactly at the times up to
\* t0 + identity_duration; a get_identity call after the expiry returns an
\* identity with another id; the active identity is the one created last and
\* no id is created twice.
C6_ExpiryNoReuse ==
    /\ \A i \in DOMAIN mintLog :
          \A t \in 0..(MaxTime + MaxDuration + 1) :
              IsValid(mintLog[i].identity, t)
                  <=> t <= mintLog[i].identity.created_at + identity_duration
    /\ \A t \in Threads :
          (pc[t] = "got" /\ call[t].prev.some /\ call[t].check_time > call[t].prev.valid_until)
              => call[t].returned # call[t].prev.id
    /\ \A i, j \in DOMAIN mintLog : i # j => mintLog[i].identity.id # mintLog[j].identity.id
    /\ IF mintLog = <<>> THEN ~current_identity.some
       ELSE current_identity = LastMinted.identity

C6_Witness ==
    /\ Len(mintLog) >= 3
    /\ now > LastMinted.identity.valid_until
    /\ \E t \in Threads :
          /\ pc[t] = "got"
          /\ call[t].prev.some
          /\ call[t].returned # call[t].prev.id

\* ---------------------------------------------------------- create_message
\* the 16 bytes TemporaryIdentity::new fills for the identity of draw c
IdBytes(c) == [j \in 1..16 |-> (53 * c + 29 * j) % 256]

\* one lower-case hexadecimal digit, as an ASCII code
HexDigit(n) == IF n < 10 THEN 48 + n ELSE 87 + n

\* hex::encode
HexEncode(b) ==
    [k \in 1..(2 * Len(b)) |->
        IF k % 2 = 1 THEN HexDigit(b[(k + 1) \div 2] \div 16) ELSE HexDigit(b[k \div 2] % 16)]

\* TemporaryIdentity.id, the bytes of the string
IdString(identity) == HexEncode(IdBytes(identity.id))

\* to_be_bytes of an n-byte unsigned integer below 2^31
ToBeBytes(v, n) ==
    [k \in 1..n |-> IF n - k >= 4 THEN 0 ELSE (v \div Pow2(8 * (n - k))) % 256]

\* Ed25519KeyPair::sign, an ideal deterministic signature: it is bound to
\* the key and to every byte of the signed message
Sign(keypair, message) == <<keypair>> \o message

\* a message_data that puts the payload before the sender id
MessageDataPayloadFirst(message) ==
    ToBeBytes(message.msg_type, 4) \o ToBeBytes(message.timestamp, 8)
        \o message.payload \o message.temp_id \o ToBeBytes(message.hop_count, 4)

\* message_data of create_message: the bytes that are signed
MessageData(message) ==
    ToBeBytes(message.msg_type, 4) \o ToBeBytes(message.timestamp, 8)
        \o message.temp_id \o message.payload \o ToBeBytes(message.hop_count, 4)

\* create_message: the record before the signature is written
UnsignedMessage(identity, timestamp, msg_type, payload, hop_count) ==
    [msg_type |-> msg_type, timestamp |-> timestamp, temp_id |-> IdString(identity),
     payload |-> payload, signature |-> <<>>, hop_count |-> hop_count]

\* create_message: identity.sign(&message_data), message.signature = signature
SignedMessage(identity, message) ==
    [message EXCEPT !.signature = Sign(identity.keypair, MessageData(message))]

\* MessageType as i32
MessageTypes == {0, 3}

\* the hop_count arguments
HopCounts == {0, 258}

InitMsg == InitIdent

\* create_message(msg_type, payload, hop_count); d seconds pass between the
\* return of get_identity and the reading of the timestamp
CreateMessage(msg_type, payload, hop_count, d) ==
    /\ now + d <= MaxTime
    /\ LET rotate == ShouldCreateNew(current_identity, now)
           identity == IF rotate THEN NewIdentity(rng + 1, now, identity_duration)
                                 ELSE current_identity
           unsigned == UnsignedMessage(identity, now + d, msg_type, payload, hop_count)
       IN  /\ current_identity' = identity
           /\ rng' = IF rotate THEN rng + 2 ELSE rng
           /\ mintLog' = IF rotate THEN Append(mintLog, [identity |-> identity, by |-> "t1"])
                                   ELSE mintLog
           /\ lastMsg' = [called |-> TRUE, msg_type |-> msg_type, payload |-> payload,
                          hop_count |-> hop_count, rotated |-> rotate, identity |-> identity,
                          unsigned |-> unsigned,
                          message |-> SignedMessage(identity, unsigned)]
    /\ now' = now + d
    /\ UNCHANGED <<identity_duration, mutex, pc, call>>
    /\ UNCHANGED <<aeadUsed, aeadReused, onionVars, sealVars>>
    /\ UNCHANGED <<codecVars, routeVars, trafficVars, lockVars>>

\* the clock advances between two create_message calls
MsgTick ==
    /\ now < MaxTime
    /\ now' = now + 1
    /\ UNCHANGED <<identity_duration, current_identity, mutex, pc, call, mintLog>>
    /\ UNCHANGED <<randVars, onionVars, sealVars, restVars>>

NextMsg ==
    \/ MsgTick
    \/ \E msg_type \in MessageTypes, payload \in Payloads, hop_count \in HopCounts, d \in 0..1 :
           CreateMessage(msg_type, payload, hop_count, d)

SpecMsg == InitMsg /\ [][NextMsg]_vars

\* C11: the message create_message returns carries the id of the identity
\* that is current when the call returns, also when the call rotated the
\* identity; its signature is that identity's signature over type,
\* timestamp, sender id, payload and hop count in this order, big-endian
\* numbers, the signature field left out; and the signature is the only
\* field that differs from the record built before signing.
C11_SignedByActiveIdentity ==
    lastMsg.called =>
        /\ current_identity.some
        /\ lastMsg.identity = current_identity
        /\ lastMsg.message.temp_id = IdString(current_identity)
        /\ lastMsg.message.msg_type = lastMsg.msg_type
        /\ lastMsg.message.payload = lastMsg.payload
        /\ lastMsg.message.hop_count = lastMsg.hop_count
        /\ lastMsg.unsigned.signature = <<>>
        /\ lastMsg.message = [lastMsg.unsigned EXCEPT !.signature = lastMsg.message.signature]
        /\ lastMsg.message.signature =
               Sign(current_identity.keypair,
                    ToBeBytes(lastMsg.message.msg_type, 4)
                        \o ToBeBytes(lastMsg.message.timestamp, 8)
                        \o lastMsg.message.temp_id
                        \o lastMsg.message.payload
                        \o ToBeBytes(lastMsg.message.hop_count, 4))

C11_Witness ==
    /\ lastMsg.called
    /\ lastMsg.rotated
    /\ Len(mintLog) >= 2
    /\ lastMsg.payload # <<>>
    /\ lastMsg.hop_count = 258
    /\ lastMsg.message.timestamp > 0
    /\ lastMsg.message.temp_id = IdString(LastMinted.identity)

\* ------------------------------------------------------- codec round trip
\* a payload long enough for a two-byte length prefix
LongPayload == [i \in 1..130 |-> (97 * i) % 256]

\* the messages handed to encode
CodecMessages ==
    [msg_type : {0, 3}, timestamp : {0, 1700000000}, temp_id : {<<>>, <<97, 49>>},
     payload : {<<>>, <<7>>, LongPayload}, signature : {<<>>, <<9, 200>>},
     hop_count : {0, 300}]

InitCodec ==
    /\ rng = 0
    /\ aeadUsed = {}
    /\ aeadReused = {}
    /\ OnionIdle
    /\ SealIdle
    /\ IdentIdle
    /\ MsgIdle
    /\ \E m \in CodecMessages : codec = [NoCodec EXCEPT !.stage = "message", !.m = m]
    /\ RouteIdle
    /\ TrafficIdle
    /\ LockIdle

\* m.encode_to_vec()
CodecEncode ==
    /\ codec.stage = "message"
    /\ codec' = [codec EXCEPT !.stage = "encoded", !.parts = EncodedFields(codec.m),
                               !.bytes = EncodeMessage(codec.m)]
    /\ UNCHANGED <<randVars, onionVars, sealVars, identVars>>
    /\ UNCHANGED <<msgVars, routeVars, trafficVars, lockVars>>

\* AnonMessage::decode(bytes)
CodecDecode ==
    /\ codec.stage = "encoded"
    /\ codec' = [codec EXCEPT !.stage = "decoded", !.decoded = DecodeMessage(codec.bytes)]
    /\ UNCHANGED <<randVars, onionVars, sealVars, identVars>>
    /\ UNCHANGED <<msgVars, routeVars, trafficVars, lockVars>>

NextCodec ==
    \/ CodecEncode
    \/ CodecDecode

SpecCodec == InitCodec /\ [][NextCodec]_vars

\* C12: decoding the bytes produced by encoding a message m succeeds, uses
\* up all the bytes and yields a message equal to m in all six fields, also
\* when payload and signature are empty and the numeric fields are zero.
C12_CodecRoundTrip ==
    codec.stage = "decoded" => codec.decoded = Parsed(codec.m, <<>>)

C12_Witness ==
    /\ codec.stage = "decoded"
    /\ codec.decoded.ok
    /\ codec.m.payload = <<>>
    /\ codec.m.signature = <<>>
    /\ codec.m.msg_type = 0
    /\ codec.m.hop_count = 0
    /\ codec.m.timestamp = 1700000000
    /\ codec.m.temp_id # <<>>
    /\ codec.decoded.val = codec.m

\* ------------------------------------------- crypto/chaotic_routing.rs
\* the peers of the network and the message ids routes are kept under
Peers == {"p1", "p2"}

MessageIds == {"m1", "m2"}

\* the available_peers arguments
PeerLists == UNION {[1..n -> Peers] : n \in 0..MaxPeers}

\* the elements of a sequence
Range(s) == {s[k] : k \in 1..Len(s)}

\* a generate_random_route that takes hop_count hops whatever max_hops is
GenerateRandomRouteUncapped(hops, available_peers, hop_count) ==
    IF available_peers = <<>> \/ hop_count = 0 THEN {<<>>}
    ELSE {[k \in 1..hop_count |-> available_peers[idx[k]]] :
              idx \in [1..hop_count -> 1..Len(available_peers)]}

\* generate_random_route(available_peers, hop_count) of a router with
\* max_hops = hops: the routes the random draws can produce
GenerateRandomRoute(hops, available_peers, hop_count) ==
    IF available_peers = <<>> \/ hop_count = 0 THEN {<<>>}
    ELSE {[k \in 1..Min(hop_count, hops) |-> available_peers[idx[k]]] :
              idx \in [1..Min(hop_count, hops) -> 1..Len(available_peers)]}

\* an insert that leaves an entry already present as it is
RouteInsertIfAbsent(table, id, route) ==
    [x \in DOMAIN table \cup {id} |-> IF x \in DOMAIN table THEN table[x] ELSE route]

\* HashMap::insert
RouteInsert(table, id, route) ==
    [x \in DOMAIN table \cup {id} |-> IF x = id THEN route ELSE table[x]]

\* a remove that empties the table
RouteRemoveAll(table, id) == [x \in {} |-> <<>>]

\* HashMap::remove
RouteRemove(table, id) == [x \in DOMAIN table \ {id} |-> table[x]]

\* HashMap::get
GetRoute(table, id) ==
    IF id \in DOMAIN table THEN [some |-> TRUE, route |-> table[id]]
    ELSE [some |-> FALSE, route |-> <<>>]

\* ChaoticRouter::new(forward_probability, max_hops)
InitRoute ==
    /\ rng = 0
    /\ aeadUsed = {}
    /\ aeadReused = {}
    /\ OnionIdle
    /\ SealIdle
    /\ IdentIdle
    /\ MsgIdle
    /\ CodecIdle
    /\ forward_probability = 5033165
    /\ max_hops \in 0..MaxHops
    /\ current_routes = EmptyTable
    /\ created = EmptyTable
    /\ lastRoute = NoRouteCall
    /\ TrafficIdle
    /\ LockIdle

\* generate_random_route(available_peers, hop_count) returns route
GenerateRoute(available_peers, hop_count, route) ==
    /\ route \in GenerateRandomRoute(max_hops, available_peers, hop_count)
    /\ lastRoute' = [op |-> "generate", id |-> "", peers |-> available_peers,
                     hop_count |-> hop_count, res |-> "ok", route |-> route,
                     before |-> current_routes]
    /\ UNCHANGED <<forward_probability, max_hops, current_routes, created>>
    /\ UNCHANGED <<randVars, onionVars, sealVars, identVars>>
    /\ UNCHANGED <<msgVars, codecVars, trafficVars, lockVars>>

\* a hop-count draw that starts at zero
HopCountDrawsFromZero(hops) == 0..hops

\* create_route: the values rng.gen_range(1..=self.max_hops) can give
HopCountDraws(hops) == 1..hops

\* create_route(message_id, available_peers) draws hop_count, generates
\* route, stores it and returns Ok(route)
CreateRoute(message_id, available_peers, hop_count, route) ==
    /\ hop_count \in HopCountDraws(max_hops)
    /\ route \in GenerateRandomRoute(max_hops, available_peers, hop_count)
    /\ current_routes' = RouteInsert(current_routes, message_id, route)
    /\ created' = RouteInsert(created, message_id, available_peers)
    /\ lastRoute' = [op |-> "create", id |-> message_id, peers |-> available_peers,
                     hop_count |-> hop_count, res |-> "ok", route |-> route,
                     before |-> current_routes]
    /\ UNCHANGED <<forward_probability, max_hops>>
    /\ UNCHANGED <<randVars, onionVars, sealVars, identVars>>
    /\ UNCHANGED <<msgVars, codecVars, trafficVars, lockVars>>

\* create_route of a router with max_hops = 0: gen_range(1..=0) panics on
\* the empty range before anything is stored
CreateRoutePanics(message_id, available_peers) ==
    /\ HopCountDraws(max_hops) = {}
    /\ lastRoute' = [op |-> "create", id |-> message_id, peers |-> available_peers,
                     hop_count |-> 0, res |-> "panic", route |-> <<>>,
                     before |-> current_routes]
    /\ UNCHANGED <<forward_probability, max_hops, current_routes, created>>
    /\ UNCHANGED <<randVars, onionVars, sealVars, identVars>>
    /\ UNCHANGED <<msgVars, codecVars, trafficVars, lockVars>>

\* get_route(message_id)
GetRouteCall(message_id) ==
    /\ lastRoute' = [op |-> "get", id |-> message_id, peers |-> <<>>, hop_count |-> 0,
                     res |-> IF GetRoute(current_routes, message_id).some THEN "some" ELSE "none",
                     route |-> GetRoute(current_routes, message_id).route,
                     before |-> current_routes]
    /\ UNCHANGED <<forward_probability, max_hops, current_routes, created>>
    /\ UNCHANGED <<randVars, onionVars, sealVars, identVars>>
    /\ UNCHANGED <<msgVars, codecVars, trafficVars, lockVars>>

\* clear_route(message_id)
ClearRoute(message_id) ==
    /\ current_routes' = RouteRemove(current_routes, message_id)
    /\ created' = [x \in DOMAIN created \ {message_id} |-> created[x]]
    /\ lastRoute' = [op |-> "clear", id |-> message_id, peers |-> <<>>, hop_count |-> 0,
                     res |-> "ok", route |-> <<>>, before |-> current_routes]
    /\ UNCHANGED <<forward_probability, max_hops>>
    /\ UNCHANGED <<randVars, onionVars, sealVars, identVars>>
    /\ UNCHANGED <<msgVars, codecVars, trafficVars, lockVars>>

NextRoute ==
    \/ \E available_peers \in PeerLists, hop_count \in 0..(MaxHops + 1) :
           \E route \in GenerateRandomRoute(max_hops, available_peers, hop_count) :
               GenerateRoute(available_peers, hop_count, route)
    \/ \E message_id \in MessageIds, available_peers \in PeerLists, hop_count \in 0..MaxHops :
           \E route \in GenerateRandomRoute(max_hops, available_peers, hop_count) :
               CreateRoute(message_id, available_peers, hop_count, route)
    \/ \E message_id \in MessageIds, available_peers \in PeerLists :
           CreateRoutePanics(message_id, available_peers)
    \/ \E message_id \in MessageIds : GetRouteCall(message_id)
    \/ \E message_id \in MessageIds : ClearRoute(message_id)

SpecRoute == InitRoute /\ [][NextRoute]_vars

\* ----------------------------------------------------------- router claims
\* the entries of the table other than id are what they were before the
\* latest call
OthersKept(id) ==
    \A x \in MessageIds \ {id} : GetRoute(current_routes, x) = GetRoute(lastRoute.before, x)

\* C13: every route stored in the table and every route create_route
\* returns has between 1 and max_hops hops, all of them members of the
\* available_peers of the call that created it.
C13_RouteWithinBounds ==
    /\ \A id \in DOMAIN current_routes :
           /\ Len(current_routes[id]) \in 1..max_hops
           /\ Range(current_routes[id]) \subseteq Range(created[id])
    /\ lastRoute.op = "create" /\ lastRoute.res = "ok" =>
           /\ Len(lastRoute.route) \in 1..max_hops
           /\ Range(lastRoute.route) \subseteq Range(lastRoute.peers)

\* C14: generate_random_route returns exactly min(hop_count, max_hops)
\* hops, each a member of available_peers, the empty route when
\* available_peers is empty, and leaves the table as it was.
C14_GeneratedRoute ==
    lastRoute.op = "generate" =>
        /\ lastRoute.res = "ok"
        /\ Len(lastRoute.route) =
               IF lastRoute.peers = <<>> THEN 0 ELSE Min(lastRoute.hop_count, max_hops)
        /\ Range(lastRoute.route) \subseteq Range(lastRoute.peers)
        /\ current_routes = lastRoute.before

C14_Witness ==
    /\ lastRoute.op = "generate"
    /\ lastRoute.hop_count > max_hops
    /\ max_hops = MaxHops
    /\ Len(lastRoute.route) = max_hops
    /\ Cardinality(Range(lastRoute.route)) = 1
    /\ Cardinality(Range(lastRoute.peers)) = 2
    /\ current_routes # EmptyTable

\* C15: create_route with an empty available_peers (the drawn hop count
\* being at least 1) returns an error and stores nothing.
C15_EmptyPeersRejected ==
    lastRoute.op = "create" /\ lastRoute.peers = <<>> /\ max_hops >= 1 =>
        /\ lastRoute.res = "error"
        /\ current_routes = lastRoute.before

\* C16: after create_route(id, peers) returned r, get_route(id) yields r and
\* the entries under other ids are what they were, also when id had a route
\* before; and get_route(id) keeps its answer over every call that is not a
\* create_route or clear_route of id.
C16_StoredUntilReplaced ==
    /\ [](lastRoute.op = "create" /\ lastRoute.res = "ok" =>
              /\ GetRoute(current_routes, lastRoute.id) = [some |-> TRUE, route |-> lastRoute.route]
              /\ OthersKept(lastRoute.id))
    /\ [][\A id \in MessageIds :
              ~(lastRoute'.op \in {"create", "clear"} /\ lastRoute'.id = id) =>
                  GetRoute(current_routes', id) = GetRoute(current_routes, id)]_vars

C16_Witness ==
    /\ lastRoute.op = "create"
    /\ lastRoute.res = "ok"
    /\ lastRoute.id = "m1"
    /\ GetRoute(lastRoute.before, "m1").some
    /\ GetRoute(lastRoute.before, "m1").route # lastRoute.route
    /\ GetRoute(current_routes, "m1").route = lastRoute.route
    /\ GetRoute(current_routes, "m2").some
    /\ GetRoute(current_routes, "m2").route # lastRoute.route

\* C17: the keys of the table are the ids given a route by create_route and
\* not cleared since; clear_route(id) leaves no route under id and the other
\* entries as they were, does nothing when id has no route, and no call
\* other than clear_route takes an entry away.
C17_ClearedOnlyByClearRoute ==
    /\ [](DOMAIN current_routes = DOMAIN created)
    /\ [](lastRoute.op = "clear" =>
              /\ ~GetRoute(current_routes, lastRoute.id).some
              /\ OthersKept(lastRoute.id)
              /\ (~GetRoute(lastRoute.before, lastRoute.id).some => current_routes = lastRoute.before))
    /\ [][\A id \in MessageIds :
              GetRoute(current_routes, id).some /\ ~GetRoute(current_routes', id).some =>
                  lastRoute'.op = "clear" /\ lastRoute'.id = id]_vars

C17_Witness ==
    /\ lastRoute.op = "clear"
    /\ lastRoute.id = "m1"
    /\ DOMAIN lastRoute.before = {"m1", "m2"}
    /\ DOMAIN current_routes = {"m2"}
    /\ current_routes["m2"] = lastRoute.before["m2"]
    /\ current_routes["m2"] # <<>>

\* ---------------------------------------------- crypto/fake_traffic.rs
\* the rate_per_second arguments of FakeTrafficGenerator::new
Rates == {-1, 0, 1, 4}

\* a wait_time that exists for positive rates only
WaitTimesPositiveOnly(rate) == IF rate > 0 THEN {0, (2000 \div rate) - 1} ELSE {}

\* wait_time of one turn of the loop in milliseconds: a draw from
\* [0, 2 / rate) seconds when rate is positive, 10 seconds otherwise
WaitTimes(rate) == IF rate > 0 THEN {0, (2000 \div rate) - 1} ELSE {10000}

\* HttpMethod::random(), the draw from 0..4 given; as_str of the method
HttpMethodRandom(draw) ==
    CASE draw = 0 -> "GET"
      [] draw = 1 -> "POST"
      [] draw = 2 -> "PUT"
      [] OTHER -> "DELETE"

\* urls of FakeHttpRequest::random
UrlPool ==
    <<"https://example.com", "https://example.org/api/v1/users",
      "https://api.service.io/data", "https://cdn.content.net/assets",
      "https://search.services.org/query">>

\* FakeHttpRequest::random(), the draws given; the id and the content of
\* the data_size random bytes are left out
RandomRequest(method_draw, url_draw, data_size) ==
    [method |-> HttpMethodRandom(method_draw), url |-> UrlPool[url_draw + 1],
     data_size |-> data_size]

\* the requests the tasks make: every method, the first and the last url,
\* the least and the greatest data_size of gen_range(10..100)
Requests ==
    {RandomRequest(method_draw, url_draw, data_size) :
         method_draw \in 0..3, url_draw \in {0, Len(UrlPool) - 1}, data_size \in {10, 99}}

\* a loop that goes on only while the active flag is set
LoopWhileActive(flag) == flag

\* the condition of the task's loop: `loop` has none, the flag is not read
LoopContinues(flag) == TRUE

\* a start that spawns nothing while the generator is active
SpawnsUnlessActive(flag) == ~flag

\* start spawns its task whatever the active flag says: it does not read it
Spawns(flag) == TRUE

\* FakeTrafficGenerator::new(rate_per_second)
InitTraffic ==
    /\ rng = 0
    /\ aeadUsed = {}
    /\ aeadReused = {}
    /\ OnionIdle
    /\ SealIdle
    /\ IdentIdle
    /\ MsgIdle
    /\ CodecIdle
    /\ RouteIdle
    /\ rate_per_second \in Rates
    /\ active = FALSE
    /\ tasks = <<>>
    /\ delivered = NoRequest
    /\ LockIdle

\* start(callback): the flag is set and the task is spawned with a copy of
\* the rate
Start ==
    /\ Len(tasks) < MaxStart
    /\ Spawns(active)
    /\ active' = TRUE
    /\ tasks' = Append(tasks, [pc |-> "loop", rate |-> rate_per_second, wait_time |-> 0])
    /\ UNCHANGED <<rate_per_second, delivered>>
    /\ UNCHANGED <<randVars, onionVars, sealVars, identVars>>
    /\ UNCHANGED <<msgVars, codecVars, routeVars, lockVars>>

\* stop()
Stop ==
    /\ active' = FALSE
    /\ UNCHANGED <<rate_per_second, tasks, delivered>>
    /\ UNCHANGED <<randVars, onionVars, sealVars, identVars>>
    /\ UNCHANGED <<msgVars, codecVars, routeVars, lockVars>>

\* task k starts a turn of its loop: it draws wait_time and goes to sleep
TaskSleep(k, wait_time) ==
    /\ k \in 1..Len(tasks)
    /\ tasks[k].pc = "loop"
    /\ LoopContinues(active)
    /\ wait_time \in WaitTimes(tasks[k].rate)
    /\ tasks' = [tasks EXCEPT ![k] = [@ EXCEPT !.pc = "sleep", !.wait_time = wait_time]]
    /\ UNCHANGED <<rate_per_second, active, delivered>>
    /\ UNCHANGED <<randVars, onionVars, sealVars, identVars>>
    /\ UNCHANGED <<msgVars, codecVars, routeVars, lockVars>>

\* the sleep of task k is over: it makes a request and calls the callback
TaskCallback(k, request) ==
    /\ k \in 1..Len(tasks)
    /\ tasks[k].pc = "sleep"
    /\ tasks' = [tasks EXCEPT ![k] = [@ EXCEPT !.pc = "callback"]]
    /\ delivered' = [method |-> request.method, url |-> request.url,
                     data_size |-> request.data_size, by |-> k, active |-> active]
    /\ UNCHANGED <<rate_per_second, active>>
    /\ UNCHANGED <<randVars, onionVars, sealVars, identVars>>
    /\ UNCHANGED <<msgVars, codecVars, routeVars, lockVars>>

\* the callback of task k returns: the loop takes its next turn
TaskReturn(k) ==
    /\ k \in 1..Len(tasks)
    /\ tasks[k].pc = "callback"
    /\ tasks' = [tasks EXCEPT ![k] = [@ EXCEPT !.pc = "loop"]]
    /\ UNCHANGED <<rate_per_second, active, delivered>>
    /\ UNCHANGED <<randVars, onionVars, sealVars, identVars>>
    /\ UNCHANGED <<msgVars, codecVars, routeVars, lockVars>>

\* a step of task k
TaskStep(k) ==
    \/ \E wait_time \in WaitTimes(-1) \cup WaitTimes(1) \cup WaitTimes(4) : TaskSleep(k, wait_time)
    \/ \E request \in Requests : TaskCallback(k, request)
    \/ TaskReturn(k)

NextTraffic ==
    \/ Start
    \/ Stop
    \/ \E k \in 1..MaxStart : TaskStep(k)

SpecTraffic == InitTraffic /\ [][NextTraffic]_vars

\* the runtime keeps running every spawned task, and every sleep ends
SpecTrafficFair == SpecTraffic /\ \A k \in 1..MaxStart : WF_vars(TaskStep(k))

\* task k has been spawned and is calling its callback
InCallback(k) == Len(tasks) >= k /\ tasks[k].pc = "callback"

SharedLayering == MultiLayerNew(1, 0)

\* the data of the messages handed to process_message: an onion packet of
\* the shared instance, and three bytes that are no packet at all
ReceivedData == {MultiLayerEncrypt(SharedLayering, <<7>>).data, <<1, 2, 3>>}

\* the route arguments of create_onion_packet
PacketRoutes == {<<>>, <<"p1">>}

\* guards that outlive the call: no mutex is freed on return
DroppedNever(t) == guard

\* the guards of t are dropped: every mutex t holds is free again
Dropped(t) == [l \in Locks |-> IF guard[l] = t THEN "free" ELSE guard[l]]

\* MessageType::from_i32 knows the value
KnownType(msg_type) == msg_type \in 0..3

InitLocks ==
    /\ rng = 1
    /\ aeadUsed = {}
    /\ aeadReused = {}
    /\ OnionIdle
    /\ SealIdle
    /\ IdentIdle
    /\ MsgIdle
    /\ CodecIdle
    /\ RouteIdle
    /\ TrafficIdle
    /\ LockIdle

\* thread t returns from its operation with result res
Returns(t, res) ==
    /\ guard' = Dropped(t)
    /\ lpc' = [lpc EXCEPT ![t] = "idle"]
    /\ lop' = [lop EXCEPT ![t].res = res]

\* thread t returns with result res, its last attempt having ended in outcome
ReturnsAfter(t, outcome, res) ==
    /\ guard' = Dropped(t)
    /\ lpc' = [lpc EXCEPT ![t] = "idle"]
    /\ lop' = [lop EXCEPT ![t].res = res, ![t].tried = Append(@, outcome)]

\* thread t's attempt ended in outcome without a return: on to position to
FallsThrough(t, outcome, to) ==
    /\ lpc' = [lpc EXCEPT ![t] = to]
    /\ lop' = [lop EXCEPT ![t].tried = Append(@, outcome)]
    /\ UNCHANGED guard

\* process_message always reporting the forwarding attempt as done
ForwardResultAlwaysOk(forward) == "forwarded"

\* process_message after should_forward(): Ok(()) when it said true, the
\* closing Err otherwise
ForwardResult(forward) == IF forward THEN "forwarded" ELSE "error"

\* thread t takes mutex l and goes on at position to
Takes(t, l, to) ==
    /\ guard[l] = "free"
    /\ guard' = [guard EXCEPT ![l] = t]
    /\ lpc' = [lpc EXCEPT ![t] = to]

\* process_message(peer_id, data): self.multi_layer_encryption.lock()
PmLockLayering(t, data) ==
    /\ lpc[t] = "idle"
    /\ lcalls < MaxCalls
    /\ Takes(t, "multi_layer_encryption", "pm_decrypt")
    /\ lop' = [lop EXCEPT ![t] = [op |-> "process_message", data |-> data, tried |-> <<>>, res |-> "none"]]
    /\ lcalls' = lcalls + 1
    /\ UNCHANGED <<randVars, onionVars, sealVars, identVars>>
    /\ UNCHANGED <<msgVars, codecVars, routeVars, trafficVars>>

\* process_message: multi_layer.decrypt(data), return Ok(()) when it opens
PmDecrypt(t) ==
    /\ lpc[t] = "pm_decrypt"
    /\ IF MultiLayerDecrypt(SharedLayering, lop[t].data).ok
       THEN ReturnsAfter(t, "ok", "decrypted")
       ELSE FallsThrough(t, "err", "pm_lock_protocol")
    /\ UNCHANGED lcalls
    /\ UNCHANGED <<randVars, onionVars, sealVars, identVars>>
    /\ UNCHANGED <<msgVars, codecVars, routeVars, trafficVars>>

\* process_message: self.anonymous_protocol.lock()
PmLockProtocol(t) ==
    /\ lpc[t] = "pm_lock_protocol"
    /\ Takes(t, "anonymous_protocol", "pm_decrypt_message")
    /\ UNCHANGED <<lop, lcalls>>
    /\ UNCHANGED <<randVars, onionVars, sealVars, identVars>>
    /\ UNCHANGED <<msgVars, codecVars, routeVars, trafficVars>>

\* process_message: anon_protocol.decrypt_message(data), return Ok(()) when
\* it yields a message of a known type
PmDecryptMessage(t) ==
    /\ lpc[t] = "pm_decrypt_message"
    /\ LET opened == DecryptMessage(lop[t].data, rng + 1)
       IN  IF opened.outcome = "Ok" /\ KnownType(opened.msg.msg_type)
           THEN ReturnsAfter(t, "ok", "anonymous_message")
           ELSE IF opened.outcome = "Panic"
           THEN ReturnsAfter(t, "panic", "panic")
           ELSE FallsThrough(t, IF opened.outcome = "Ok" THEN "unknown_type" ELSE "err",
                             "pm_lock_router")
    /\ rng' = IF Len(lop[t].data) < NonceLen THEN rng ELSE rng + 1
    /\ UNCHANGED lcalls
    /\ UNCHANGED <<aeadUsed, aeadReused, onionVars, sealVars, identVars>>
    /\ UNCHANGED <<msgVars, codecVars, routeVars, trafficVars>>

\* process_message: self.chaotic_router.lock()
PmLockRouter(t) ==
    /\ lpc[t] = "pm_lock_router"
    /\ Takes(t, "chaotic_router", "pm_should_forward")
    /\ UNCHANGED <<lop, lcalls>>
    /\ UNCHANGED <<randVars, onionVars, sealVars, identVars>>
    /\ UNCHANGED <<msgVars, codecVars, routeVars, trafficVars>>

\* process_message: chaotic_router.should_forward() draws forward; Ok(()) or
\* Err is returned
PmShouldForward(t, forward) ==
    /\ lpc[t] = "pm_should_forward"
    /\ ReturnsAfter(t, IF forward THEN "true" ELSE "false", ForwardResult(forward))
    /\ UNCHANGED lcalls
    /\ UNCHANGED <<randVars, onionVars, sealVars, identVars>>
    /\ UNCHANGED <<msgVars, codecVars, routeVars, trafficVars>>

\* create_anonymous_token(data, ttl): self.anonymous_protocol.lock()
CatLockProtocol(t, data) ==
    /\ lpc[t] = "idle"
    /\ lcalls < MaxCalls
    /\ Takes(t, "anonymous_protocol", "cat_create")
    /\ lop' = [lop EXCEPT ![t] = [op |-> "create_anonymous_token", data |-> data, tried |-> <<>>, res |-> "none"]]
    /\ lcalls' = lcalls + 1
    /\ UNCHANGED <<randVars, onionVars, sealVars, identVars>>
    /\ UNCHANGED <<msgVars, codecVars, routeVars, trafficVars>>

\* create_anonymous_token: create_message, encrypt_message, return the token
CatCreate(t) ==
    /\ lpc[t] = "cat_create"
    /\ LET rotate == ShouldCreateNew(current_identity, now)
           identity == IF rotate THEN NewIdentity(rng + 1, now, identity_duration)
                                 ELSE current_identity
       IN  /\ current_identity' = identity
           /\ rng' = IF rotate THEN rng + 4 ELSE rng + 2
           /\ mintLog' = IF rotate THEN Append(mintLog, [identity |-> identity, by |-> t])
                                   ELSE mintLog
    /\ Returns(t, "token")
    /\ UNCHANGED lcalls
    /\ UNCHANGED <<now, identity_duration, mutex, pc, call>>
    /\ UNCHANGED <<aeadUsed, aeadReused, onionVars, sealVars>>
    /\ UNCHANGED <<msgVars, codecVars, routeVars, trafficVars>>

\* create_onion_packet(data, route): self.multi_layer_encryption.lock()
CopLockLayering(t, route) ==
    /\ lpc[t] = "idle"
    /\ lcalls < MaxCalls
    /\ Takes(t, "multi_layer_encryption", "cop_build")
    /\ lop' = [lop EXCEPT ![t] = [op |-> "create_onion_packet", data |-> route, tried |-> <<>>, res |-> "none"]]
    /\ lcalls' = lcalls + 1
    /\ UNCHANGED <<randVars, onionVars, sealVars, identVars>>
    /\ UNCHANGED <<msgVars, codecVars, routeVars, trafficVars>>

\* create_onion_packet: one EncryptionLayer::new() per hop of the route, the
\* packet is returned
CopBuild(t) ==
    /\ lpc[t] = "cop_build"
    /\ rng' = rng + Len(lop[t].data)
    /\ Returns(t, "packet")
    /\ UNCHANGED lcalls
    /\ UNCHANGED <<aeadUsed, aeadReused, onionVars, sealVars, identVars>>
    /\ UNCHANGED <<msgVars, codecVars, routeVars, trafficVars>>

NextLocks ==
    \/ \E t \in Threads, data \in ReceivedData : PmLockLayering(t, data)
    \/ \E t \in Threads : PmDecrypt(t)
    \/ \E t \in Threads : PmLockProtocol(t)
    \/ \E t \in Threads : PmDecryptMessage(t)
    \/ \E t \in Threads : PmLockRouter(t)
    \/ \E t \in Threads, forward \in BOOLEAN : PmShouldForward(t, forward)
    \/ \E t \in Threads, data \in Payloads : CatLockProtocol(t, data)
    \/ \E t \in Threads : CatCreate(t)
    \/ \E t \in Threads, route \in PacketRoutes : CopLockLayering(t, route)
    \/ \E t \in Threads : CopBuild(t)

SpecLocks == InitLocks /\ [][NextLocks]_vars

\* the mutexes thread t holds
Held(t) == {l \in Locks : guard[l] = t}

\* C19: no thread holds two of the three component locks at the same time:
\* each lock is released before the thread takes the next one.
C19_OneLockAtATime == \A t \in Threads : Cardinality(Held(t)) <= 1

\* -------------------------------------------------------------- onion size
\* the wrappings of an output, outermost first: wrapping j is what layer
\* n + 1 - j produced, peeled with the layers' own decrypt
RECURSIVE Wrappings(_, _, _)
Wrappings(layers, i, data) ==
    IF i = 0 THEN <<>>
    ELSE LET r == LayerDecrypt(layers[i], data)
         IN  IF r.ok THEN <<data>> \o Wrappings(layers, i - 1, r.data) ELSE <<data>>

\* the wrapping w is nonce, ciphertext of inner-many bytes, 16-byte tag of
\* the layer
WrappedBy(layer, w, inner) ==
    /\ Len(w) = NonceLen + inner + TagLen
    /\ Take(w, NonceLen) = layer.nonce
    /\ Drop(w, NonceLen + inner) =
           Tag(layer.key, layer.nonce, Take(Drop(w, NonceLen), inner))

\* C20: the output of encrypt(d) on an instance with N layers is
\* |d| + N * (12 + 16) bytes long; the output of every layer is that layer's
\* 12-byte nonce, the ciphertext and a 16-byte tag, and the first 12 bytes
\* of the whole output are the nonce of the last layer.
C20_OnionSize ==
    \A e \in DOMAIN onionLog :
        LET ls == onionLog[e].layers
            n == Len(ls)
            ws == Wrappings(ls, n, onionLog[e].out)
        IN  /\ Len(onionLog[e].out) = Len(onionLog[e].d) + n * (12 + 16)
            /\ n >= 1 => Take(onionLog[e].out, 12) = ls[n].nonce
            /\ Len(ws) = n
            /\ \A j \in 1..n :
                   WrappedBy(ls[n + 1 - j], ws[j], Len(onionLog[e].d) + (n - j) * (12 + 16))

C20_Witness ==
    \E e \in DOMAIN onionLog :
        /\ Len(onionLog[e].layers) = MaxLayers + MaxAdd
        /\ onionLog[e].d # <<>>
        /\ Len(onionLog[e].out) = Len(onionLog[e].d) + (MaxLayers + MaxAdd) * (NonceLen + TagLen)
        /\ Take(onionLog[e].out, NonceLen) = onionLog[e].layers[MaxLayers + MaxAdd].nonce

\* ------------------------------------------------------- should_forward
\* forward_probability arguments of ChaoticRouter::new, in units of 2^-24
\* (0.3 rounded up to the next unit): 0.0, 0.3 and 1.0
Probabilities == {0, 5033165, Pow2(24)}

\* rng.gen::<f32>(): a multiple of 2^-24 in [0, 1), in units of 2^-24
Draws == {0, 5033164, 5033165, Pow2(24) - 1}

\* a comparison that lets the draw equal the probability
ForwardsInclusive(draw, probability) == draw <= probability

\* rng.gen::<f32>() < self.forward_probability
Forwards(draw, probability) == draw < probability

\* ChaoticRouter::new(forward_probability, max_hops)
InitForward ==
    /\ rng = 0
    /\ aeadUsed = {}
    /\ aeadReused = {}
    /\ OnionIdle
    /\ SealIdle
    /\ IdentIdle
    /\ MsgIdle
    /\ CodecIdle
    /\ forward_probability \in Probabilities
    /\ max_hops = MaxHops
    /\ current_routes = EmptyTable
    /\ created = EmptyTable
    /\ lastRoute = NoRouteCall
    /\ TrafficIdle
    /\ LockIdle

\* should_forward(), the random f32 being draw
ShouldForward(draw) ==
    /\ lastRoute' = [op |-> "should_forward", id |-> "", peers |-> <<>>, hop_count |-> 0,
                     res |-> IF Forwards(draw, forward_probability) THEN "true" ELSE "false",
                     route |-> <<>>, before |-> current_routes]
    /\ UNCHANGED <<forward_probability, max_hops, current_routes, created>>
    /\ UNCHANGED <<randVars, onionVars, sealVars, identVars>>
    /\ UNCHANGED <<msgVars, codecVars, trafficVars, lockVars>>

NextForward ==
    \/ \E draw \in Draws : ShouldForward(draw)
    \/ \E message_id \in MessageIds, available_peers \in PeerLists, hop_count \in 0..MaxHops :
           \E route \in GenerateRandomRoute(max_hops, available_peers, hop_count) :
               CreateRoute(message_id, available_peers, hop_count, route)

SpecForward == InitForward /\ [][NextForward]_vars

\* C21: with forward_probability 1.0 every should_forward call returns
\* true, with 0.0 every call returns false, and a should_forward call
\* changes neither the table nor forward_probability nor max_hops.
C21_ForwardAtExtremes ==
    /\ [](lastRoute.op = "should_forward" =>
              /\ forward_probability = Pow2(24) => lastRoute.res = "true"
              /\ forward_probability = 0 => lastRoute.res = "false"
              /\ current_routes = lastRoute.before)
    /\ [][lastRoute'.op = "should_forward" =>
              UNCHANGED <<forward_probability, max_hops, current_routes>>]_vars

C21_Witness ==
    /\ lastRoute.op = "should_forward"
    /\ forward_probability = 0
    /\ lastRoute.res = "false"
    /\ DOMAIN current_routes = MessageIds

\* C22: every request handed to a callback has a method among GET, POST,
\* PUT, DELETE and a url of the pool of five, and carries data only when the
\* method is POST or PUT; for GET and DELETE the data is empty.
C22_PayloadOnlyForWrites ==
    delivered.by # 0 =>
        /\ delivered.method \in {"GET", "POST", "PUT", "DELETE"}
        /\ delivered.url \in Range(UrlPool)
        /\ Len(UrlPool) = 5
        /\ delivered.method \in {"GET", "DELETE"} => delivered.data_size = 0

\* ----------------------------------------------------------- unknown tags
\* the bytes of a sequence of records, one after the other
RECURSIVE Flatten(_)
Flatten(parts) == IF parts = <<>> THEN <<>> ELSE Head(parts) \o Flatten(Tail(parts))

\* well-formed records with tags outside 1..6: a varint under tag 7, two
\* bytes under tag 8, a 64-bit value under tag 9, a 32-bit value under tag
\* 16 (a two-byte key) and a group under tag 7 holding a varint field 1
UnknownRecords ==
    {EncodeKey(7, Wire.Varint) \o EncodeVarint(300),
     EncodeKey(8, Wire.LengthDelimited) \o EncodeVarint(2) \o <<10, 0>>,
     EncodeKey(9, Wire.SixtyFourBit) \o <<1, 2, 3, 4, 5, 6, 7, 8>>,
     EncodeKey(16, Wire.ThirtyTwoBit) \o <<10, 0, 18, 0>>,
     EncodeKey(7, Wire.StartGroup) \o EncodeKey(1, Wire.Varint) \o EncodeVarint(5)
         \o EncodeKey(7, Wire.EndGroup)}

\* the messages whose encodings get unknown records
SkipMessages ==
    [msg_type : {0, 3}, timestamp : {1700000000}, temp_id : {<<97, 49>>},
     payload : {<<>>, <<7>>}, signature : {<<9, 200>>}, hop_count : {0, 300}]

InitSkip ==
    /\ rng = 0
    /\ aeadUsed = {}
    /\ aeadReused = {}
    /\ OnionIdle
    /\ SealIdle
    /\ IdentIdle
    /\ MsgIdle
    /\ \E m \in SkipMessages : codec = [NoCodec EXCEPT !.stage = "message", !.m = m]
    /\ RouteIdle
    /\ TrafficIdle
    /\ LockIdle

\* a sender that knows more fields: the record goes in after the first pos
\* records of the encoding
CodecInsert(pos, record) ==
    /\ codec.stage = "encoded"
    /\ Len(codec.parts) < 6 + MaxUnknown
    /\ pos \in 0..Len(codec.parts)
    /\ LET parts == SubSeq(codec.parts, 1, pos) \o <<record>>
                        \o SubSeq(codec.parts, pos + 1, Len(codec.parts))
       IN  codec' = [codec EXCEPT !.parts = parts, !.bytes = Flatten(parts)]
    /\ UNCHANGED <<randVars, onionVars, sealVars, identVars>>
    /\ UNCHANGED <<msgVars, routeVars, trafficVars, lockVars>>

NextSkip ==
    \/ CodecEncode
    \/ \E pos \in 0..(6 + MaxUnknown), record \in UnknownRecords : CodecInsert(pos, record)
    \/ CodecDecode

SpecSkip == InitSkip /\ [][NextSkip]_vars

\* C23: when records with tags outside 1..6 stand between the fields of
\* the encoding of m (before the first, between two, after the last),
\* decode succeeds, uses up all bytes and returns exactly m.
C23_UnknownTagsSkipped ==
    /\ codec.stage = "encoded" => codec.bytes = Flatten(codec.parts)
    /\ codec.stage = "decoded" /\ Len(codec.parts) > 6 =>
           /\ codec.decoded.ok
           /\ codec.decoded.val = codec.m
           /\ codec.decoded.rest = <<>>

C23_Witness ==
    /\ codec.stage = "decoded"
    /\ Len(codec.parts) = 6 + MaxUnknown
    /\ codec.parts[1] \in UnknownRecords
    /\ codec.parts[4] = EncodeKey(7, Wire.StartGroup) \o EncodeKey(1, Wire.Varint)
                            \o EncodeVarint(5) \o EncodeKey(7, Wire.EndGroup)
    /\ codec.m.payload # <<>>
    /\ codec.decoded.ok
    /\ codec.decoded.val = codec.m

\* ------------------------------------------------------ the emission loop
\* the moves of a task's position within one turn of its loop
TurnOrder == {<<"loop", "sleep">>, <<"sleep", "callback">>, <<"callback", "loop">>}

\* C24: every task start() has spawned takes its turns forever: a turn is a
\* sleep followed by one call of the callback with the request made in that
\* step, the sleep is 10 seconds when the rate is not positive and below
\* 2 / rate seconds otherwise, and the callback is called again and again.
C24_LoopCyclesForever ==
    /\ [][\A k \in 1..Len(tasks) :
              /\ tasks'[k].pc # tasks[k].pc => <<tasks[k].pc, tasks'[k].pc>> \in TurnOrder
              /\ (delivered' # delivered /\ delivered'.by = k) =>
                     tasks[k].pc = "sleep" /\ tasks'[k].pc = "callback"
              /\ tasks'[k].pc = "callback" /\ tasks[k].pc # "callback" =>
                     delivered'.by = k /\ delivered'.method # ""]_vars
    /\ [](\A k \in 1..Len(tasks) :
              tasks[k].pc = "sleep" =>
                  IF tasks[k].rate > 0
                  THEN tasks[k].wait_time >= 0 /\ tasks[k].wait_time * tasks[k].rate < 2000
                  ELSE tasks[k].wait_time = 10000)
    /\ \A k \in 1..MaxStart : [](Len(tasks) >= k => []<>InCallback(k))

C24_Witness ==
    /\ active
    /\ InCallback(1)
    /\ tasks[1].rate <= 0
    /\ tasks[1].wait_time = 10000
    /\ delivered.by = 1
    /\ delivered.active

\* ------------------------------------------------ process_message's result
\* the positions of a thread inside process_message
PmPositions == {"pm_decrypt", "pm_lock_protocol", "pm_decrypt_message",
                "pm_lock_router", "pm_should_forward"}

\* an attempt's outcome that makes process_message return Ok(())
Succeeded(outcome) == outcome \in {"ok", "true"}

\* thread t has returned from process_message
PmDone(t) == lop[t].op = "process_message" /\ lpc[t] = "idle"

\* C25: process_message tries the onion decrypt, then the seal-open with a
\* known message type, then the forwarding decision; it returns Ok at the
\* first attempt that succeeds, no later attempt having run, and Err exactly
\* when the first fails, the second fails or gives an unknown type, and
\* should_forward() says no. Its steps leave the identity, the layers and
\* the route table as they were.
C25_FirstSuccessReturns ==
    /\ [](\A t \in Threads :
            LET tried == lop[t].tried
                n == Len(tried)
            IN  /\ lop[t].op = "process_message" =>
                    /\ n <= 3
                    /\ \A i \in 1..(n - 1) : ~Succeeded(tried[i])
                    /\ n >= 1 =>
                          (tried[1] = "ok" <=>
                               MultiLayerDecrypt(SharedLayering, lop[t].data).ok)
                    /\ n >= 1 => tried[1] \in {"ok", "err"}
                    /\ n >= 2 => tried[2] \in {"ok", "err", "unknown_type", "panic"}
                    /\ n >= 3 => tried[3] \in {"true", "false"}
                /\ PmDone(t) =>
                    /\ n >= 1
                    /\ lop[t].res \in {"decrypted", "anonymous_message", "forwarded"}
                           <=> Succeeded(tried[n])
                    /\ lop[t].res = "decrypted" <=> (n = 1)
                    /\ lop[t].res = "anonymous_message" <=> (n = 2 /\ tried[2] = "ok")
                    /\ lop[t].res = "forwarded" <=> (n = 3 /\ tried[3] = "true")
                    /\ lop[t].res = "error" <=>
                           /\ n = 3
                           /\ tried[1] = "err"
                           /\ tried[2] \in {"err", "unknown_type"}
                           /\ tried[3] = "false")
    /\ [][(\E t \in Threads :
              /\ lpc'[t] # lpc[t]
              /\ lpc[t] \in PmPositions \/ lpc'[t] \in PmPositions)
          => UNCHANGED <<current_identity, inst, current_routes>>]_vars

C25_Witness ==
    \E t \in Threads :
        /\ PmDone(t)
        /\ lop[t].res = "error"
        /\ lop[t].tried = <<"err", "err", "false">>
        /\ \E u \in Threads : PmDone(u) /\ lop[u].res = "decrypted"
        /\ current_identity.some

\* ------------------------------------------------------ the order of locks
\* the steps of thread t inside an operation it has begun
ThreadStep(t) ==
    \/ PmDecrypt(t)
    \/ PmLockProtocol(t)
    \/ PmDecryptMessage(t)
    \/ PmLockRouter(t)
    \/ \E forward \in BOOLEAN : PmShouldForward(t, forward)
    \/ CatCreate(t)
    \/ CopBuild(t)

\* every thread that can take a step of its operation takes one in the end
SpecLocksFair == SpecLocks /\ \A t \in Threads : WF_vars(ThreadStep(t))

\* the place of a mutex in the order layering, protocol, router
LockRank(l) ==
    CASE l = "multi_layer_encryption" -> 1
      [] l = "anonymous_protocol" -> 2
      [] l = "chaotic_router" -> 3

\* C26: the three operations never deadlock: a thread only takes a mutex
\* that comes after every mutex it holds in the order layering, protocol,
\* router, and every operation that was begun returns.
C26_NoDeadlock ==
    /\ [][\A t \in Threads : \A l \in Locks :
              guard'[l] = t /\ guard[l] # t =>
                  \A h \in Held(t) : LockRank(h) < LockRank(l)]_vars
    /\ \A t \in Threads : [](lpc[t] # "idle" => <>(lpc[t] = "idle"))

C26_Witness ==
    \E t \in Threads, u \in Threads :
        /\ t # u
        /\ lpc[t] = "pm_lock_protocol"
        /\ guard["multi_layer_encryption"] = t
        /\ guard["anonymous_protocol"] = u
        /\ lpc[u] = "cat_create"

\* ------------------------------------------------- the unread nonce prefix
\* the layer MultiLayerEncryption::decrypt applies first
OutermostLayer(layers) == layers[Len(layers)]

\* C27: EncryptionLayer::decrypt does not read the 12 bytes in front of the
\* ciphertext: an input with a bit of one of them inverted gives what the
\* unaltered input gives, the same plaintext or an error alike, so decrypt
\* of an instance with layers does not notice an altered outermost nonce
\* prefix.
C27_NoncePrefixIgnored ==
    (lastDec.kind # "none" /\ Len(lastDec.layers) >= 1) =>
        /\ \A p \in {1, NonceLen} : \A bit \in FlipBits :
               Len(DecSrc.out) >= NonceLen =>
                   LayerDecrypt(OutermostLayer(lastDec.layers), FlipBit(DecSrc.out, p, bit))
                       = LayerDecrypt(OutermostLayer(lastDec.layers), DecSrc.out)
        /\ lastDec.kind = "flip_nonce" =>
               lastDec.res = DecryptFrom(lastDec.layers, Len(lastDec.layers), DecSrc.out)

C27_Witness ==
    /\ lastDec.kind = "flip_nonce"
    /\ Len(lastDec.layers) = MaxLayers
    /\ lastDec.input # DecSrc.out
    /\ Drop(lastDec.input, NonceLen) = Drop(DecSrc.out, NonceLen)
    /\ lastDec.res.ok
    /\ lastDec.res.data = DecSrc.d
    /\ Len(DecSrc.d) = MaxLen

\* --------------------------------------------------- create_route's domain
\* the call create_route(message_id, available_peers), whatever it draws
CreateRouteCall(message_id, available_peers) ==
    \/ \E hop_count \in 0..MaxHops :
           \E route \in GenerateRandomRoute(max_hops, available_peers, hop_count) :
               CreateRoute(message_id, available_peers, hop_count, route)
    \/ CreateRoutePanics(message_id, available_peers)

\* C28: on a router with max_hops = 0 every create_route call panics at the
\* hop-count draw, no route is generated and the table stays as it was; on
\* a router with max_hops >= 1 every create_route call returns Ok, whatever
\* its arguments, and none ends in Err or a panic.
C28_CreateRouteTotality ==
    /\ \A message_id \in MessageIds, available_peers \in PeerLists :
           ENABLED CreateRouteCall(message_id, available_peers)
    /\ max_hops = 0 => current_routes = EmptyTable
    /\ lastRoute.op = "create" =>
           /\ lastRoute.res \in {"ok", "panic"}
           /\ lastRoute.res = "panic" <=> (max_hops = 0)
           /\ lastRoute.res = "panic" =>
                  /\ lastRoute.route = <<>>
                  /\ current_routes = lastRoute.before
           /\ lastRoute.res = "ok" => GetRoute(current_routes, lastRoute.id).some

C28_Witness ==
    /\ max_hops = 0
    /\ lastRoute.op = "create"
    /\ lastRoute.res = "panic"
    /\ lastRoute.peers # <<>>
    /\ current_routes = EmptyTable

\* ------------------------------------------------------ one task per start
\* C29: every start() spawns one more task, whether or not the generator is
\* active, and leaves the earlier tasks running as they were; no step ends a
\* task; each of the tasks spawned so far keeps calling its own callback.
C29_OneTaskPerStart ==
    /\ [](Len(tasks) < MaxStart => ENABLED Start)
    /\ [][/\ Len(tasks') >= Len(tasks)
          /\ \A k \in 1..Len(tasks) : tasks'[k].rate = tasks[k].rate
          /\ Len(tasks') > Len(tasks) =>
                 /\ Len(tasks') = Len(tasks) + 1
                 /\ active'
                 /\ tasks'[Len(tasks')].pc = "loop"
                 /\ \A k \in 1..Len(tasks) : tasks'[k] = tasks[k]]_vars
    /\ \A k \in 1..MaxStart :
           [](Len(tasks) >= k => []<>(InCallback(k) /\ delivered.by = k))

C29_Witness ==
    /\ Len(tasks) = MaxStart
    /\ ~active
    /\ InCallback(1)
    /\ InCallback(2)
    /\ delivered.by = 2
    /\ tasks[1].wait_time # tasks[2].wait_time

====
